---- MODULE Spec2Model ----
(***************************************************************************)
(* Model of the polymarket-sniper decision pipeline: the RiskManager      *)
(* (strategies/risk.rs), the Executor (execution/executor.rs), the         *)
(* arbitrage detector and sizer (strategies/arbitrage.rs,                  *)
(* strategies/position_sizing.rs) and the Sniper event loop (sniper.rs).   *)
(*                                                                         *)
(* Units.  f64 quantities are carried as scaled integers:                  *)
(*   prices        in cents        (0.47  -> 47)                           *)
(*   USD sizes     in cents        (10.0  -> 1000)                         *)
(*   fractions/pct in basis points (0.05  -> 500)                          *)
(*   confidence    in percent      (0.6   -> 60)                           *)
(* Strings built with format! are tuples of their parts, so that           *)
(* "arb_<market>_<millis>_YES" is <<"arb", market, millis, "YES">> and a   *)
(* bare market id "m1" is <<"m1">>.                                        *)
(***************************************************************************)
EXTENDS Integers, Sequences, FiniteSets, Bags, TLC

VARIABLES
    config,           \* Sniper.config (risk, agent, arbitrage sections), fixed after construction
    queue,            \* an OrderBookQueue: its capacity and the order books queued, oldest first
    price_book,       \* a price-level OrderBook (polymarket/orderbook.rs): bids and asks, key -> size
    now,              \* wall clock, whole seconds (SystemTime::now / Utc::now)
    positions,        \* RiskManager.positions : key -> Position
    rm_ret,           \* last RiskManager call made directly by a client, with its return value
    rm_open,          \* market ids given to add_position and not since to remove_position
    seen_markets,     \* Sniper.seen_markets
    pending_retries,  \* Sniper.pending_retries : queue of <<condition id, attempts>>
    fetch_tasks,      \* spawned get_market_details tasks that have not sent their result yet
    retry_rx,         \* retry result channel : queue of [cid, attempts, result]
    ws_update_rx,     \* CLOB update channel : queue of OrderbookUpdate
    active_markets,   \* Sniper.active_markets : market id -> MarketData
    asset_map,        \* Sniper.asset_map : asset id -> <<market id, side>>
    sub_requests,     \* asset ids handed to ClobWebSocket::subscribe so far
    subscribe_rx,     \* ClobWebSocket subscribe channel : queue of Vec<asset id>
    ws,               \* the stream client task of ClobWebSocket::new
    pnl_positions,    \* PnLTracker.positions : trade id -> analytics Position
    pc,               \* where the run() loop is: at select!, or inside an awaited call
    env,              \* what the outside world may still do (events, failures, polls ...)
    hist              \* observation log of the run (orders placed, calls made)

vars == <<config, queue, price_book, now, positions, rm_ret, rm_open, seen_markets, pending_retries, fetch_tasks,
          retry_rx, ws_update_rx, active_markets, asset_map, sub_requests,
          subscribe_rx, ws, pnl_positions, pc, env, hist>>

rmVars == <<config, queue, price_book, now, positions, rm_ret, rm_open>>
sniperVars == <<seen_markets, pending_retries, fetch_tasks, retry_rx, ws_update_rx,
                active_markets, asset_map, sub_requests, subscribe_rx, ws, pnl_positions,
                pc, env, hist>>

(***************************************************************************)
(* Bounds of the model                                                     *)
(***************************************************************************)
MaxTime == 3

Markets == {<<"m1">>, <<"m2">>}
Sides == {"YES", "NO"}

Range(f) == {f[k] : k \in DOMAIN f}

\* HashMap::insert / HashMap::remove on a table kept as a function
MapInsert(map, k, v) == [x \in (DOMAIN map) \cup {k} |-> IF x = k THEN v ELSE map[x]]
MapRemove(map, k) == [x \in (DOMAIN map) \ {k} |-> map[x]]
EmptyMap == [x \in {} |-> 0]

RECURSIVE SumSizes(_, _)
SumSizes(tbl, S) ==
    IF S = {} THEN 0
    ELSE LET k == CHOOSE x \in S : TRUE
         IN tbl[k].size_usd + SumSizes(tbl, S \ {k})

(***************************************************************************)
(* RiskManager (strategies/risk.rs).  tbl is self.positions.               *)
(***************************************************************************)
\* 1000.0 * max_position_size_pct, in cents
max_position_size == ((1000 * 100) \div 10000) * config.max_position_size_pct

\* max_portfolio_exposure_pct * 1000.0, in cents
max_exposure == config.max_portfolio_exposure_pct * ((1000 * 100) \div 10000)

\* positions.values().map(|p| p.size_usd).sum()
current_exposure(tbl) == SumSizes(tbl, DOMAIN tbl)

\* faulty variant: the duplicate-position check is missing
validate_entry_nodup(tbl, market_id, size_usd, confidence) ==
    IF size_usd > max_position_size THEN FALSE
    ELSE IF current_exposure(tbl) + size_usd > max_exposure THEN FALSE
    ELSE IF confidence < 60 THEN FALSE
    ELSE TRUE

\* faulty variant: the exposure check ignores the requested size
validate_entry_noadd(tbl, market_id, size_usd, confidence) ==
    IF market_id \in DOMAIN tbl THEN FALSE
    ELSE IF size_usd > max_position_size THEN FALSE
    ELSE IF current_exposure(tbl) > max_exposure THEN FALSE
    ELSE IF confidence < 60 THEN FALSE
    ELSE TRUE

\* faulty variant: the confidence floor is exclusive
validate_entry_conf(tbl, market_id, size_usd, confidence) ==
    IF market_id \in DOMAIN tbl THEN FALSE
    ELSE IF size_usd > max_position_size THEN FALSE
    ELSE IF current_exposure(tbl) + size_usd > max_exposure THEN FALSE
    ELSE IF confidence <= 60 THEN FALSE
    ELSE TRUE

validate_entry(tbl, market_id, size_usd, confidence) ==
    IF market_id \in DOMAIN tbl THEN FALSE
    ELSE IF size_usd > max_position_size THEN FALSE
    ELSE IF current_exposure(tbl) + size_usd > max_exposure THEN FALSE
    ELSE IF confidence < 60 THEN FALSE
    ELSE TRUE

\* faulty variant: the tiers are ignored
get_dynamic_threshold_flat(entry_price) == config.stop_loss_pct

get_dynamic_threshold(entry_price) ==
    IF entry_price >= 90 THEN 300
    ELSE IF entry_price >= 80 THEN 500
    ELSE IF entry_price >= 70 THEN 800
    ELSE IF entry_price >= 60 THEN 1200
    ELSE config.stop_loss_pct

\* now.saturating_sub(position.timestamp)
held_secs(position) == IF now >= position.timestamp THEN now - position.timestamp ELSE 0

\* <<current, entry, threshold>> on the cent grid where the loss equals the threshold
\* exactly and the f64 quotient (current - entry) / entry rounds to just below
\* -threshold (e.g. (0.76 - 0.80) / 0.80 = -0.050000000000000044)
F64RoundsBelow ==
    {<<19, 20, 500>>, <<38, 40, 500>>, <<57, 60, 500>>, <<69, 75, 800>>,
     <<76, 80, 500>>, <<95, 100, 500>>, <<97, 100, 300>>}

\* faulty variant: the price difference is not divided by the entry price
pnl_below_abs(current_price, entry_price, threshold) ==
    (current_price - entry_price) * 100 < 0 - threshold

\* (current_price - entry_price) / entry_price < -threshold  in f64: with a zero
\* entry price the quotient is +inf or NaN for prices >= 0, and the test is false
pnl_below(current_price, entry_price, threshold) ==
    IF entry_price = 0 THEN FALSE
    ELSE \/ (current_price - entry_price) * 10000 < (0 - threshold) * entry_price
         \/ <<current_price, entry_price, threshold>> \in F64RoundsBelow

\* faulty variant: the minimum hold time is not checked
check_stop_loss_nohold(position, current_price) ==
    LET threshold == IF config.use_dynamic_sl
                     THEN get_dynamic_threshold(position.entry_price)
                     ELSE config.stop_loss_pct
    IN pnl_below(current_price, position.entry_price, threshold)

\* faulty variant: the loss is compared with <= instead of <
check_stop_loss_lte(position, current_price) ==
    IF held_secs(position) < config.min_hold_time_secs THEN FALSE
    ELSE LET threshold == IF config.use_dynamic_sl
                          THEN get_dynamic_threshold(position.entry_price)
                          ELSE config.stop_loss_pct
         IN (current_price - position.entry_price) * 10000
                <= (0 - threshold) * position.entry_price

check_stop_loss(position, current_price) ==
    IF held_secs(position) < config.min_hold_time_secs THEN FALSE
    ELSE LET threshold == IF config.use_dynamic_sl
                          THEN get_dynamic_threshold(position.entry_price)
                          ELSE config.stop_loss_pct
         IN pnl_below(current_price, position.entry_price, threshold)

\* faulty variant: the table is keyed by the trade id
add_position_by_trade(tbl, market_id, trade_id, side, size_usd, entry_price) ==
    MapInsert(tbl, trade_id,
              [market_id |-> market_id, trade_id |-> trade_id, side |-> side,
               size_usd |-> size_usd, entry_price |-> entry_price, timestamp |-> now])

\* the table after add_position(market_id, trade_id, side, size_usd, entry_price)
add_position(tbl, market_id, trade_id, side, size_usd, entry_price) ==
    MapInsert(tbl, market_id,
              [market_id |-> market_id, trade_id |-> trade_id, side |-> side,
               size_usd |-> size_usd, entry_price |-> entry_price, timestamp |-> now])

\* the table after remove_position(market_id)
remove_position(tbl, market_id) == MapRemove(tbl, market_id)

\* get_positions(): the values of the table
get_positions(tbl) == Range(tbl)

(***************************************************************************)
(* Configurations (config.rs).  RiskConfig fractions are in basis points.  *)
(***************************************************************************)
RiskConfigs ==
    [max_position_size_pct : {1000}, max_portfolio_exposure_pct : {1500},
     stop_loss_pct : {500}, use_dynamic_sl : BOOLEAN, min_hold_time_secs : {0, 2},
     auto_sell_threshold : {99}, scan_existing_on_startup : BOOLEAN,
     min_edge_bps : {20}, ws_enabled : {TRUE}]

TradeIds == {<<"t1">>, <<"t2">>}
RMSizes == {5000, 10000, 11000}
RMConfidences == {59, 60, 100}
EntryPrices == {0, 50, 80, 90}
CurrentPrices == {0, 47, 49, 76, 87}

NoCall == [op |-> "none"]

\* Option<T>
None == [some |-> FALSE]
Some(v) == [value |-> v, some |-> TRUE]

\* the program itself constructs no OrderBookQueue
NoQueue == [capacity |-> 0, items |-> <<>>]

NoPoll == [done |-> FALSE]

\* OrderBook::new() of polymarket/orderbook.rs: two empty BTreeMaps; the program itself
\* constructs none
EmptyBook == [bids |-> EmptyMap, asks |-> EmptyMap]

\* the observation log before anything has happened
HistInit ==
    [last |-> "none",                          \* outcome of the latest process_single_market
     entries |-> [m \in Markets |-> 0],       \* arbitrage entries executed and registered
     opened |-> {},                            \* <<table key, market id>> of every registration
     millis |-> 0,                             \* readings of the millisecond clock so far
     first_time |-> [m \in Markets |-> 0],    \* first-time processings (fetch, retry, poll)
     skipped |-> 0,                            \* fetched markets dropped as already seen
     evaluated |-> [m \in Markets |-> 0],     \* times the market was given to the detector
     below |-> {},                             \* markets whose fetched metadata failed a filter
     failed |-> {},                            \* the sub-operations that have failed so far
     redeem |-> [done |-> FALSE],              \* the latest redemption check
     call |-> NoCall,                          \* the latest call of a function on its own
     received |-> <<>>,                        \* book entries read from the socket, in order
     applied |-> <<>>,                         \* updates taken by the tick branch, in order
     chains |-> 0,                             \* failed initial fetches (retry chains begun)
     dispatched |-> 0,                         \* retry fetch tasks spawned
     orders |-> {},                            \* <<market id, side, size>> of every entry order placed
     signal |-> [done |-> FALSE],              \* the signal of the latest evaluation, if any
     flush |-> [done |-> FALSE],               \* the latest retry_interval tick
     levels |-> EmptyMap,                      \* latest size given for each <<side, price>>
     poll |-> NoPoll]                          \* the latest successful poll

\* the stream client task right after tokio::spawn: about to call connect_async.
\* pending_subs is the buffer of the connection, wire the asset ids the venue has been
\* sent on the connection, written those it has been sent on any connection, flushed
\* whether the connection has had a flush tick, conns the connections made so far,
\* sleep the seconds of back-off left, last the latest flush, ended whether read.next()
\* of the connection has returned None
WsSpawned ==
    [phase |-> "connecting", pending_subs |-> <<>>, wire |-> {}, written |-> {},
     flushed |-> FALSE, conns |-> 0, sleep |-> 0, last |-> [done |-> FALSE],
     ended |-> FALSE]

\* the state of the Sniper right after Sniper::new
SniperIdle ==
    /\ seen_markets = {}
    /\ pending_retries = <<>>
    /\ fetch_tasks = EmptyBag
    /\ retry_rx = <<>>
    /\ ws_update_rx = <<>>
    /\ active_markets = EmptyMap
    /\ asset_map = EmptyMap
    /\ sub_requests = {}
    /\ subscribe_rx = <<>>
    /\ ws = WsSpawned
    /\ pnl_positions = EmptyMap
    /\ pc = [at |-> "select"]
    /\ hist = HistInit

(***************************************************************************)
(* The RiskManager driven directly through its public methods              *)
(***************************************************************************)
RMAddPosition(market_id, trade_id, side, size_usd, entry_price) ==
    /\ market_id \in env.markets
    /\ [trade_id |-> trade_id, side |-> side, size_usd |-> size_usd,
        entry_price |-> entry_price] \in env.add_args
    /\ positions' = add_position(positions, market_id, trade_id, side, size_usd, entry_price)
    /\ rm_open' = rm_open \cup {market_id}
    /\ rm_ret' = [op |-> "add_position", market_id |-> market_id]
    /\ UNCHANGED <<ws, config, queue, price_book, now, env>>
    /\ UNCHANGED <<seen_markets, pending_retries, fetch_tasks, retry_rx, ws_update_rx,
                   active_markets, asset_map, sub_requests, subscribe_rx, pnl_positions, pc, hist>>

RMRemovePosition(market_id) ==
    /\ market_id \in env.markets
    /\ positions' = remove_position(positions, market_id)
    /\ rm_open' = rm_open \ {market_id}
    /\ rm_ret' = [op |-> "remove_position", market_id |-> market_id]
    /\ UNCHANGED <<ws, config, queue, price_book, now, env>>
    /\ UNCHANGED <<seen_markets, pending_retries, fetch_tasks, retry_rx, ws_update_rx,
                   active_markets, asset_map, sub_requests, subscribe_rx, pnl_positions, pc, hist>>

RMValidateEntry(market_id, size_usd, confidence) ==
    /\ market_id \in env.markets
    /\ rm_ret' = [op |-> "validate_entry", market_id |-> market_id, size_usd |-> size_usd,
                  confidence |-> confidence, before |-> positions,
                  result |-> validate_entry(positions, market_id, size_usd, confidence)]
    /\ UNCHANGED <<ws, config, queue, price_book, now, env, positions, rm_open>>
    /\ UNCHANGED <<seen_markets, pending_retries, fetch_tasks, retry_rx, ws_update_rx,
                   active_markets, asset_map, sub_requests, subscribe_rx, pnl_positions, pc, hist>>

RMCheckStopLoss(position, current_price) ==
    /\ rm_ret' = [op |-> "check_stop_loss", position |-> position,
                  current_price |-> current_price, at |-> now,
                  result |-> check_stop_loss(position, current_price)]
    /\ UNCHANGED <<ws, config, queue, price_book, now, env, positions, rm_open>>
    /\ UNCHANGED <<seen_markets, pending_retries, fetch_tasks, retry_rx, ws_update_rx,
                   active_markets, asset_map, sub_requests, subscribe_rx, pnl_positions, pc, hist>>

\* the wall clock advances
ClockTick ==
    /\ now < MaxTime
    /\ now' = now + 1
    /\ UNCHANGED <<ws, config, queue, price_book, env, positions, rm_ret, rm_open>>
    /\ UNCHANGED <<seen_markets, pending_retries, fetch_tasks, retry_rx, ws_update_rx,
                   active_markets, asset_map, sub_requests, subscribe_rx, pnl_positions, pc, hist>>

InitRM ==
    /\ config \in {c \in RiskConfigs : c.min_hold_time_secs = 2 /\ c.scan_existing_on_startup}
    /\ now = 0
    /\ positions = EmptyMap
    /\ rm_ret = NoCall
    /\ queue = NoQueue
    /\ price_book = EmptyBook
    /\ rm_open = {}
    /\ env = [markets |-> Markets,
              add_args |-> [trade_id : TradeIds, side : Sides, size_usd : {5000, 10000},
                            entry_price : {50}]]
    /\ SniperIdle

NextRM ==
    \/ \E m \in Markets, a \in env.add_args :
          RMAddPosition(m, a.trade_id, a.side, a.size_usd, a.entry_price)
    \/ \E m \in Markets : RMRemovePosition(m)
    \/ \E m \in Markets, s \in RMSizes, c \in RMConfidences : RMValidateEntry(m, s, c)

SpecRM == InitRM /\ [][NextRM]_vars

InitSL ==
    /\ config \in {c \in RiskConfigs : c.scan_existing_on_startup}
    /\ now = 0
    /\ positions = EmptyMap
    /\ rm_ret = NoCall
    /\ queue = NoQueue
    /\ price_book = EmptyBook
    /\ rm_open = {}
    /\ env = [markets |-> {<<"m1">>},
              add_args |-> [trade_id : {<<"t1">>}, side : {"YES"}, size_usd : {5000},
                            entry_price : EntryPrices]]
    /\ SniperIdle

NextSL ==
    \/ \E m \in Markets, a \in env.add_args :
          RMAddPosition(m, a.trade_id, a.side, a.size_usd, a.entry_price)
    \/ \E p \in get_positions(positions), c \in CurrentPrices : RMCheckStopLoss(p, c)
    \/ ClockTick

SpecSL == InitSL /\ [][NextSL]_vars

(***************************************************************************)
(* The RiskManager under the configuration of test_risk_manager            *)
(* (tests/core_tests.rs): max_position_size_pct 10.0,                      *)
(* max_portfolio_exposure_pct 50.0, stop_loss_pct 5.0                      *)
(***************************************************************************)
TestRiskConfigs ==
    {[c EXCEPT !.max_position_size_pct = 100000, !.max_portfolio_exposure_pct = 500000,
               !.stop_loss_pct = 50000] : c \in {d \in RiskConfigs : d.scan_existing_on_startup}}

\* the sizes of the two validate_entry calls of the test, 5.0 and 15.0, in cents
TestSizes == {500, 1500}

InitTest ==
    /\ config \in TestRiskConfigs
    /\ now = 0
    /\ positions = EmptyMap
    /\ rm_ret = NoCall
    /\ queue = NoQueue
    /\ price_book = EmptyBook
    /\ rm_open = {}
    /\ env = [markets |-> Markets,
              add_args |-> [trade_id : {<<"t1">>}, side : {"YES"}, size_usd : {10000},
                            entry_price : {50}]]
    /\ SniperIdle

NextTest ==
    \/ \E m \in Markets, s \in TestSizes : RMValidateEntry(m, s, 80)
    \/ \E m \in Markets, a \in env.add_args :
          RMAddPosition(m, a.trade_id, a.side, a.size_usd, a.entry_price)
    \/ \E p \in get_positions(positions), c \in {47, 49} : RMCheckStopLoss(p, c)
    \/ ClockTick

SpecTest == InitTest /\ [][NextTest]_vars

(***************************************************************************)
(* Market data (polymarket/types.rs, polymarket/client.rs)                 *)
(***************************************************************************)
\* the prices, in cents, that quotes and ticks of the model carry
PriceGrid == {0, 1, 40, 55, 99}

\* faulty variant: the two position ids are returned in the order (no, yes)
derive_asset_ids_swapped(condition_id) ==
    [yes_id |-> <<condition_id[1], "tokN">>, no_id |-> <<condition_id[1], "tokY">>]

\* derive_asset_ids(condition_id) = (yes_id, no_id): two distinct token ids per condition
derive_asset_ids(condition_id) ==
    [yes_id |-> <<condition_id[1], "tokY">>, no_id |-> <<condition_id[1], "tokN">>]

AssetIds == UNION {{derive_asset_ids(m).yes_id, derive_asset_ids(m).no_id} : m \in Markets}

\* the placeholder built by the new-market branch of run()
synthetic_market(condition_id) ==
    [id |-> condition_id, question |-> "Loading Metadata", volume |-> 0, liquidity |-> 0,
     volume_24h |-> 0, yes_price |-> 0, no_price |-> 0,
     asset_ids |-> <<derive_asset_ids(condition_id).no_id, derive_asset_ids(condition_id).yes_id>>]

\* what get_market_details / get_active_markets can return for one condition:
\* convert_gamma_market output, or the locally derived fallback (volume 0, prices 0)
ApiMarket(condition_id, quote, volume, yes_first) ==
    [id |-> condition_id, question |-> "Market", volume |-> volume, liquidity |-> volume,
     volume_24h |-> 0, yes_price |-> quote[1], no_price |-> quote[2],
     asset_ids |-> IF yes_first
                   THEN <<derive_asset_ids(condition_id).yes_id, derive_asset_ids(condition_id).no_id>>
                   ELSE <<derive_asset_ids(condition_id).no_id, derive_asset_ids(condition_id).yes_id>>]

ApiMarkets(condition_id) ==
    {ApiMarket(condition_id, q, v, yf) : q \in env.quotes, v \in env.volumes, yf \in env.yes_first}

\* MarketFilters defaults: MIN_MARKET_VOLUME 1000, MIN_LIQUIDITY 500, MIN_24H_VOLUME 0
passes_filters(market) ==
    IF market.question = "Loading Metadata" THEN TRUE
    ELSE IF market.volume < 1000 THEN FALSE
    ELSE IF market.liquidity < 500 THEN FALSE
    ELSE IF market.volume_24h < 0 THEN FALSE
    ELSE TRUE

(***************************************************************************)
(* Arbitrage detector and sizer (strategies/arbitrage.rs,                  *)
(* strategies/position_sizing.rs)                                          *)
(***************************************************************************)
\* price pairs of PriceGrid for which ((1.0 - (yes + no)) * 10000.0) as i32 is one
\* less than the exact spread (1.0 - 0.8 = 0.19999999999999996 -> 1999)
F64SpreadShort == {<<1, 55>>, <<55, 1>>, <<40, 40>>, <<40, 55>>, <<55, 40>>}

\* spread_bps = ((1.0 - total_cost) * 10000.0) as i32
spread_bps(yes_ask, no_ask) ==
    (100 - (yes_ask + no_ask)) * 100 - (IF <<yes_ask, no_ask>> \in F64SpreadShort THEN 1 ELSE 0)

\* estimate_win_probability(is_atomic, slippage_bps), in percent
estimate_win_probability(is_atomic, slippage_bps) ==
    IF is_atomic THEN 98
    ELSE LET p == 90 - (slippage_bps \div 200) IN IF p < 50 THEN 50 ELSE p

\* estimate_volatility(market_id), in percent
estimate_volatility(market_id) == 10

\* faulty variant: only the ceiling is applied
apply_risk_limits_ceiling_only(size_usd, capital) ==
    LET max_size == (capital * 1000) \div 10000
    IN IF size_usd < max_size THEN size_usd ELSE max_size

\* PositionSizer::apply_risk_limits with min_position_pct 0.01 and max_position_pct 0.10
apply_risk_limits(size_usd, capital) ==
    LET min_size == (capital * 100) \div 10000
        max_size == (capital * 1000) \div 10000
        floored == IF size_usd > min_size THEN size_usd ELSE min_size
    IN IF floored < max_size THEN floored ELSE max_size

\* PositionSizer::calculate_optimal_size with kelly_fraction 0.25; the Kelly fraction
\* (p * odds - q) / odds with odds = edge / (1 - edge) is
\* (win * e - (100 - win) * (10000 - e)) / (100 * e); sizes are floored to the cent
calculate_optimal_size(edge_bps, win_probability, capital, volatility) ==
    IF edge_bps <= 0 \/ win_probability <= 0 \/ capital <= 0 THEN 0
    \* edge = 1.0: odds is infinite and kelly_raw is NaN; f64::max returns its other
    \* operand for a NaN, so apply_risk_limits returns min_size
    ELSE IF edge_bps = 10000 THEN apply_risk_limits(0, capital)
    ELSE LET kelly_num == win_probability * edge_bps
                              - (100 - win_probability) * (10000 - edge_bps)
             half_vol == (volatility * 50) \div 100
             volatility_factor == IF volatility <= 0 THEN 100
                                  ELSE 100 - (IF half_vol < 50 THEN half_vol ELSE 50)
             \* kelly_num * 25 * volatility_factor / edge_bps, divided in two steps
             \* to stay within 32 bits
             scaled == (kelly_num \div edge_bps) * 25 * volatility_factor
                           + ((kelly_num % edge_bps) * 25 * volatility_factor) \div edge_bps
             size_usd == scaled \div (1000000 \div capital)
         IN apply_risk_limits(size_usd, capital)

\* ArbitrageStrategy::calculate_position_size with use_dynamic_sizing and CAPITAL = 1000.0
calculate_position_size(edge_bps, market_id, slippage_bps, is_atomic) ==
    calculate_optimal_size(edge_bps, estimate_win_probability(is_atomic, slippage_bps),
                           100000, estimate_volatility(market_id))

NoSignal == [kind |-> "None"]

\* faulty variant: the test of the two prices against zero is left out
check_opportunity_unguarded(market) ==
    LET net_spread_bps == spread_bps(market.yes_price, market.no_price) - 80
    IN IF net_spread_bps <= config.min_edge_bps THEN NoSignal
       ELSE [kind |-> "BuyBoth", market_id |-> market.id, yes_price |-> market.yes_price,
             no_price |-> market.no_price,
             size_usd |-> calculate_position_size(net_spread_bps, market.id, 0, TRUE),
             expected_profit_bps |-> net_spread_bps]

\* ArbitrageStrategy::check_opportunity, TOTAL_FEE_BPS = 80
check_opportunity(market) ==
    LET yes_ask == market.yes_price
        no_ask == market.no_price
        net_spread_bps == spread_bps(yes_ask, no_ask) - 80
    IN IF net_spread_bps <= config.min_edge_bps THEN NoSignal
       ELSE IF yes_ask <= 0 \/ no_ask <= 0 THEN NoSignal
       ELSE [kind |-> "BuyBoth", market_id |-> market.id, yes_price |-> yes_ask,
             no_price |-> no_ask,
             size_usd |-> calculate_position_size(net_spread_bps, market.id, 0, TRUE),
             expected_profit_bps |-> net_spread_bps]

(***************************************************************************)
(* Executor (execution/executor.rs).  ch holds what the market interface   *)
(* answers during the call: ch.balance for get_balance, ch.fail_leg for    *)
(* the place_order call that fails ("none", "YES" or "NO").                *)
(***************************************************************************)
\* format!("arb_{}_{}", market.id, Utc::now().timestamp_millis()); an entry awaits
\* get_balance and two place_order calls, so the millisecond clock has moved on
\* between two readings and millis is the number of the reading
arb_trade_id(market_id, millis) == <<"arb", market_id[1], millis>>

\* execute_regular_arbitrage: the YES order, the NO order, then both registrations;
\* `?` on a failed order returns before anything is registered.  add_position is
\* called as add_position(format!("{}_YES", trade_id), market.id, "YES", ...), so its
\* market_id parameter receives the leg's trade id and trade_id the market id.
execute_regular_arbitrage(tbl, market, yes_price, no_price, size_usd, trade_id, ch) ==
    IF ch.fail_leg = "YES"
    THEN [ok |-> FALSE, positions |-> tbl, placed |-> {}]
    ELSE IF ch.fail_leg = "NO"
    THEN [ok |-> FALSE, positions |-> tbl, placed |-> {"YES"}]
    ELSE [ok |-> TRUE,
          positions |->
              add_position(
                  add_position(tbl, trade_id \o <<"YES">>, market.id, "YES",
                               size_usd \div 2, yes_price),
                  trade_id \o <<"NO">>, market.id, "NO", size_usd \div 2, no_price),
          placed |-> {"YES", "NO"}]

\* execute_arbitrage_bundle: with or without a Flashbots client it runs the regular path
execute_arbitrage_bundle(tbl, market, yes_price, no_price, size_usd, trade_id, ch) ==
    execute_regular_arbitrage(tbl, market, yes_price, no_price, size_usd, trade_id, ch)

\* faulty variant: the position is removed before the closing order is placed
close_position_eager(tbl, market, side, order_ok) ==
    LET found == {p \in get_positions(tbl) : p.market_id = market.id /\ p.side = side}
    IN IF found = {} THEN [ok |-> FALSE, positions |-> tbl, ordered |-> FALSE]
       ELSE [ok |-> order_ok, positions |-> remove_position(tbl, market.id), ordered |-> TRUE]

\* close_position: Err("Position not found") unless a position has this market id and
\* side; Err if the closing order fails; otherwise remove_position(market.id)
close_position(tbl, market, side, order_ok) ==
    LET found == {p \in get_positions(tbl) : p.market_id = market.id /\ p.side = side}
    IN IF found = {} THEN [ok |-> FALSE, positions |-> tbl, ordered |-> FALSE]
       ELSE IF ~order_ok THEN [ok |-> FALSE, positions |-> tbl, ordered |-> TRUE]
       ELSE [ok |-> TRUE, positions |-> remove_position(tbl, market.id), ordered |-> TRUE]

(***************************************************************************)
(* Sniper (sniper.rs).  st is the part of self that process_single_market  *)
(* and manage_positions work on: active_markets, asset_map, sub_requests,  *)
(* positions, pnl_positions, and the observation log hist.                 *)
(***************************************************************************)
SeqToSet(q) == {q[i] : i \in 1..Len(q)}

\* PnLTracker::add_position
pnl_add_position(tbl, position) == MapInsert(tbl, position.id, position)

\* PnLTracker::close_position
pnl_close_position(tbl, position_id) == MapRemove(tbl, position_id)

\* ClobWebSocket::subscribe: the vector goes onto the unbounded subscribe channel
subscribe(chan, asset_ids) == Append(chan, asset_ids)

\* faulty variant: asset_ids[0] is mapped to YES and asset_ids[1] to NO
register_for_ws_swapped(st, market) ==
    IF config.ws_enabled /\ market.asset_ids # <<>>
    THEN [st EXCEPT
            !.sub_requests = @ \cup SeqToSet(market.asset_ids),
            !.subscribe_rx = subscribe(@, market.asset_ids),
            !.active_markets = MapInsert(@, market.id, market),
            !.asset_map =
                IF Len(market.asset_ids) >= 2
                THEN MapInsert(MapInsert(@, market.asset_ids[1], <<market.id, "YES">>),
                               market.asset_ids[2], <<market.id, "NO">>)
                ELSE @]
    ELSE st

\* the "Register for WS Updates" block of process_single_market
register_for_ws(st, market) ==
    IF config.ws_enabled /\ market.asset_ids # <<>>
    THEN [st EXCEPT
            !.sub_requests = @ \cup SeqToSet(market.asset_ids),
            !.subscribe_rx = subscribe(@, market.asset_ids),
            !.active_markets = MapInsert(@, market.id, market),
            !.asset_map =
                IF Len(market.asset_ids) >= 2
                THEN MapInsert(MapInsert(@, market.asset_ids[1], <<market.id, "NO">>),
                               market.asset_ids[2], <<market.id, "YES">>)
                ELSE @]
    ELSE st

\* faulty variant: a failed balance query counts as the whole capital
balance_or_capital(b) == IF b.ok THEN b.value ELSE 100000

\* get_balance().await.unwrap_or(0.0)
balance_or_zero(b) == IF b.ok THEN b.value ELSE 0

process_single_market(st, market, ch) ==
    IF ~passes_filters(market)
    THEN [st EXCEPT !.hist.last = "filtered", !.hist.below = @ \cup {market.id}]
    ELSE
    LET st0 == register_for_ws(st, market)
        st1 == [st0 EXCEPT !.hist.evaluated[market.id] = @ + 1]
        sig == check_opportunity(market)
    IN  IF sig.kind = "None"
        THEN [st1 EXCEPT !.hist.last = "no_signal", !.hist.signal = [done |-> FALSE]]
        ELSE
        LET balance == balance_or_zero(ch.balance)
            final_size == IF balance < sig.size_usd THEN balance ELSE sig.size_usd
            st2 == [st1 EXCEPT
                      !.hist.failed = IF ch.balance.ok THEN @ ELSE @ \cup {"get_balance"},
                      !.hist.signal = [done |-> TRUE, market_id |-> market.id,
                                       size_usd |-> sig.size_usd, answer |-> ch.balance,
                                       final_size |-> final_size]]
        IN  IF final_size < 200 THEN [st2 EXCEPT !.hist.last = "low_balance"]
            ELSE IF ~validate_entry(st2.positions, market.id, final_size, 100)
            THEN [st2 EXCEPT !.hist.last = "risk_rejected"]
            ELSE
            LET trade_id == arb_trade_id(market.id, st2.hist.millis)
                res == execute_arbitrage_bundle(st2.positions, market, sig.yes_price,
                                                sig.no_price, final_size, trade_id, ch)
                position == [id |-> trade_id, market_id |-> market.id, side |-> "BOTH",
                             size |-> final_size,
                             entry_price |-> sig.yes_price + sig.no_price,
                             current_price |-> sig.yes_price + sig.no_price]
            IN  [st2 EXCEPT
                    !.positions = res.positions,
                    !.pnl_positions = pnl_add_position(@, position),
                    !.hist.last = IF res.ok THEN "executed" ELSE "exec_failed",
                    !.hist.failed = IF res.ok THEN @ ELSE @ \cup {"order"},
                    !.hist.millis = @ + 1,
                    !.hist.orders = @ \cup {<<market.id, leg, final_size \div 2>> :
                                               leg \in res.placed},
                    !.hist.opened = @ \cup {<<k, market.id>> :
                                               k \in DOMAIN res.positions \ DOMAIN st2.positions},
                    !.hist.entries[market.id] = IF res.ok THEN @ + 1 ELSE @]

\* one position of manage_positions' loop: stop-loss check, then the auto-sell check
manage_one(st, position, current_markets, ch) ==
    LET hits == {j \in 1..Len(current_markets) : current_markets[j].id = position.market_id}
    IN  IF hits = {} THEN st
        ELSE
        LET market == current_markets[CHOOSE j \in hits : \A h \in hits : j <= h]
            current_price == IF position.side = "YES" THEN market.yes_price
                             ELSE market.no_price
            sl == IF check_stop_loss(position, current_price)
                  THEN close_position(st.positions, market, position.side, ch.close_ok)
                  ELSE [ok |-> FALSE, positions |-> st.positions, ordered |-> FALSE]
            st1 == [st EXCEPT
                      !.positions = sl.positions,
                      !.pnl_positions = IF sl.ok THEN pnl_close_position(@, position.trade_id)
                                        ELSE @,
                      !.hist.failed = IF sl.ordered /\ ~sl.ok THEN @ \cup {"order"} ELSE @,
                      !.hist.poll.ordered = IF sl.ordered THEN @ \cup {position.market_id}
                                            ELSE @]
            tp == IF current_price >= config.auto_sell_threshold
                  THEN close_position(st1.positions, market, position.side, ch.close_ok)
                  ELSE [ok |-> FALSE, positions |-> st1.positions, ordered |-> FALSE]
        IN  [st1 EXCEPT
               !.positions = tp.positions,
               !.pnl_positions = IF tp.ok THEN pnl_close_position(@, position.trade_id)
                                 ELSE @,
               !.hist.failed = IF tp.ordered /\ ~tp.ok THEN @ \cup {"order"} ELSE @,
               !.hist.poll.ordered = IF tp.ordered THEN @ \cup {position.market_id}
                                     ELSE @]

RECURSIVE manage_each(_, _, _, _)
manage_each(st, todo, current_markets, ch) ==
    IF todo = {} THEN st
    ELSE LET position == CHOOSE p \in todo : TRUE
         IN manage_each(manage_one(st, position, current_markets, ch),
                        todo \ {position}, current_markets, ch)

\* manage_positions: the loop runs over the positions as they were on entry
manage_positions(st, current_markets, ch) ==
    LET st1 == manage_each([st EXCEPT !.hist.poll = [done |-> TRUE, at |-> now,
                                                     markets |-> current_markets,
                                                     before |-> st.positions,
                                                     ordered |-> {}, after |-> {},
                                                     close_ok |-> ch.close_ok]],
                           get_positions(st.positions), current_markets, ch)
    IN [st1 EXCEPT !.hist.poll.after = DOMAIN st1.positions]

\* faulty variant: the id is not recorded as seen
seen_insert_forgotten(seen, market_id) == seen

\* seen_markets.insert(id)
seen_insert(seen, market_id) == seen \cup {market_id}

\* let max_attempts = 60
max_attempts == 60

\* faulty variant: one attempt too many
retry_again_lte(attempts) == attempts <= max_attempts

\* attempts < max_attempts
retry_again(attempts) == attempts < max_attempts

\* a first-time processing of a market (immediate fetch, retry result or poll path)
first_time_process(st, market, ch) ==
    LET st1 == process_single_market(st, market, ch)
    IN [st1 EXCEPT !.hist.first_time[market.id] = @ + 1]

SniperState ==
    [active_markets |-> active_markets, asset_map |-> asset_map,
     sub_requests |-> sub_requests, subscribe_rx |-> subscribe_rx, positions |-> positions,
     pnl_positions |-> pnl_positions, hist |-> hist]

Commit(st) ==
    /\ active_markets' = st.active_markets
    /\ asset_map' = st.asset_map
    /\ sub_requests' = st.sub_requests
    /\ subscribe_rx' = st.subscribe_rx
    /\ positions' = st.positions
    /\ pnl_positions' = st.pnl_positions
    /\ hist' = st.hist

Choices == [balance : env.balances, fail_leg : env.fail_legs, close_ok : env.close_ok]

FetchErr == [ok |-> FALSE]
FetchOk(market) == [ok |-> TRUE, market |-> market]

\* the bag of the entries of q at the positions idx
RECURSIVE BagOfSeq(_, _)
BagOfSeq(q, idx) ==
    IF idx = {} THEN EmptyBag
    ELSE LET j == CHOOSE x \in idx : TRUE
         IN SetToBag({q[j]}) (+) BagOfSeq(q, idx \ {j})

(***************************************************************************)
(* The stream client (polymarket/ws.rs): the task spawned by               *)
(* ClobWebSocket::new.  ws.phase is "connecting" inside connect_async,     *)
(* "live" inside the select! loop of a connection, "backoff" in the sleep  *)
(* that follows a failed connect or a torn-down connection.                *)
(***************************************************************************)
\* tokio::time::sleep(Duration::from_secs(5))
backoff_secs == 5

\* batch.chunks(50)
chunk_size == 50

\* asset ids are strings; String::cmp on the ids of the model: the derived ids in the
\* order m1/tokN < m1/tokY < m2/tokN < m2/tokY, then the ids <<"bulk", i>> by i
AssetRank(asset_id) ==
    IF asset_id[1] = "bulk" THEN 4 + asset_id[2]
    ELSE (IF asset_id[1] = "m1" THEN 0 ELSE 2) + (IF asset_id[2] = "tokN" THEN 1 ELSE 2)

\* Vec::sort
sort(v) == SortSeq(v, LAMBDA a, b : AssetRank(a) < AssetRank(b))

\* Vec::dedup: consecutive repeated elements are removed
RECURSIVE dedup(_)
dedup(v) ==
    IF Len(v) <= 1 THEN v
    ELSE IF v[1] = v[2] THEN dedup(Tail(v))
    ELSE <<v[1]>> \o dedup(Tail(v))

\* slice::chunks(n)
RECURSIVE chunks(_, _)
chunks(v, n) ==
    IF v = <<>> THEN <<>>
    ELSE IF Len(v) <= n THEN <<v>>
    ELSE <<SubSeq(v, 1, n)>> \o chunks(SubSeq(v, n + 1, Len(v)), n)

\* faulty variant: the batch is not de-duplicated
flush_messages_nodedup(pending_subs) == chunks(sort(pending_subs), chunk_size)

\* the Subscription messages of one flush: drain, sort, dedup, chunks(50)
flush_messages(pending_subs) == chunks(dedup(sort(pending_subs)), chunk_size)

\* the asset ids of the messages msgs[j], j in idx
RECURSIVE IdsOf(_, _)
IdsOf(msgs, idx) ==
    IF idx = {} THEN {}
    ELSE LET j == CHOOSE x \in idx : TRUE
         IN SeqToSet(msgs[j]) \cup IdsOf(msgs, idx \ {j})

\* faulty variant: a torn-down connection is not followed by a new attempt
teardown_final(w) ==
    [w EXCEPT !.phase = "stopped", !.pending_subs = <<>>, !.wire = {}, !.flushed = FALSE]

\* break out of the connection's loop: its locals are dropped, then the 5 s sleep
teardown(w) ==
    [w EXCEPT !.phase = "backoff", !.sleep = backoff_secs, !.pending_subs = <<>>,
              !.wire = {}, !.flushed = FALSE, !.ended = FALSE]

\* connect_async(CLOB_WS_URL).await returns
WsConnect(ok) ==
    /\ ws.phase = "connecting"
    /\ IF ok
       THEN /\ ws' = [ws EXCEPT !.phase = "live", !.conns = @ + 1, !.pending_subs = <<>>,
                                !.wire = {}, !.flushed = FALSE, !.ended = FALSE]
            /\ UNCHANGED env
       ELSE /\ env.drops > 0
            /\ env' = [env EXCEPT !.drops = @ - 1]
            /\ ws' = [ws EXCEPT !.phase = "backoff", !.sleep = backoff_secs]
    /\ UNCHANGED <<config, queue, price_book, now, positions, rm_ret, rm_open, seen_markets, pending_retries,
                   fetch_tasks, retry_rx, ws_update_rx, active_markets, asset_map,
                   sub_requests, subscribe_rx, pnl_positions, pc, hist>>

\* one second of the back-off sleep passes; after the last one the loop connects again
WsSleepTick ==
    /\ ws.phase = "backoff"
    /\ ws' = [ws EXCEPT !.sleep = @ - 1,
                        !.phase = IF ws.sleep <= 1 THEN "connecting" ELSE "backoff"]
    /\ UNCHANGED <<config, queue, price_book, now, positions, rm_ret, rm_open, seen_markets, pending_retries,
                   fetch_tasks, retry_rx, ws_update_rx, active_markets, asset_map,
                   sub_requests, subscribe_rx, pnl_positions, pc, env, hist>>

\* Some(mut assets) = subscribe_rx.recv() => pending_subs.append(&mut assets)
WsRecvSubscribe ==
    /\ ws.phase = "live"
    /\ subscribe_rx # <<>>
    /\ subscribe_rx' = Tail(subscribe_rx)
    /\ ws' = [ws EXCEPT !.pending_subs = @ \o Head(subscribe_rx)]
    /\ UNCHANGED <<config, queue, price_book, now, positions, rm_ret, rm_open, seen_markets, pending_retries,
                   fetch_tasks, retry_rx, ws_update_rx, active_markets, asset_map,
                   sub_requests, pnl_positions, pc, env, hist>>

\* _ = flush_interval.tick(): failed is the set of messages whose write.send fails
WsFlush(failed) ==
    /\ ws.phase = "live"
    /\ env.flushes > 0
    /\ LET msgs == IF ws.pending_subs = <<>> THEN <<>> ELSE flush_messages(ws.pending_subs)
           sent == IdsOf(msgs, (1..Len(msgs)) \ failed)
       IN /\ failed \subseteq 1..Len(msgs)
          /\ Cardinality(failed) <= env.write_fails
          /\ env' = [env EXCEPT !.flushes = @ - 1, !.write_fails = @ - Cardinality(failed)]
          /\ ws' = [ws EXCEPT !.pending_subs = <<>>,
                              !.wire = @ \cup sent,
                              !.written = @ \cup sent,
                              !.flushed = TRUE,
                              !.last = [done |-> TRUE, pending |-> ws.pending_subs,
                                        msgs |-> msgs, failed |-> failed]]
    /\ UNCHANGED <<config, queue, price_book, now, positions, rm_ret, rm_open, seen_markets, pending_retries,
                   fetch_tasks, retry_rx, ws_update_rx, active_markets, asset_map,
                   sub_requests, subscribe_rx, pnl_positions, pc, hist>>

\* a frame of the socket.  A text frame is given by what serde makes of it: shape
\* "array" (Vec<WsBookSnapshot>), "book" (one WsBookSnapshot), "price_changes"
\* (WsMessage), "last_trade_price", or "other" (non-JSON text, unknown objects)
TextFrame(shape, items) == [kind |-> "text", shape |-> shape, items |-> items]
ControlFrame(kind) == [kind |-> kind]

\* an OrderbookUpdate; only asset_id and asks are read by the orchestrator
OrderbookUpdate(asset_id, asks) == [asset_id |-> asset_id, asks |-> asks]

\* faulty variant: the updates of a frame are handed over last first
RECURSIVE frame_updates_reversed(_)
frame_updates_reversed(frame) ==
    IF frame.shape \notin {"array", "book", "price_changes"} \/ frame.items = <<>>
    THEN <<>>
    ELSE frame_updates_reversed([frame EXCEPT !.items = Tail(@)])
         \o <<OrderbookUpdate(Head(frame.items).asset_id, Head(frame.items).asks)>>

\* the updates a text frame is turned into, in the order of update_tx.send: one per
\* snapshot of an array, one for a book object, one per entry of price_changes
\* (asks = [best_ask]); nothing for any other text
RECURSIVE frame_updates(_)
frame_updates(frame) ==
    IF frame.shape \notin {"array", "book", "price_changes"} \/ frame.items = <<>>
    THEN <<>>
    ELSE <<OrderbookUpdate(Head(frame.items).asset_id, Head(frame.items).asks)>>
         \o frame_updates([frame EXCEPT !.items = Tail(@)])

\* Some(msg) = read.next(): a text frame is parsed and its updates are sent to the
\* orchestrator; a ping is answered (a failed pong breaks the loop); a close frame or
\* a read error breaks the loop; any other message is ignored
WsRead(frame, pong_ok) ==
    /\ ws.phase = "live"
    /\ ~ws.ended
    /\ frame \in env.frames
    /\ IF frame.kind = "text"
       THEN /\ env.reads > 0
            /\ env' = [env EXCEPT !.reads = @ - 1]
            /\ ws_update_rx' = ws_update_rx \o frame_updates(frame)
            /\ hist' = [hist EXCEPT !.received =
                            IF frame.shape \in {"array", "book", "price_changes"}
                            THEN @ \o frame.items ELSE @]
            /\ UNCHANGED ws
       ELSE IF frame.kind \in {"close", "error"} \/ (frame.kind = "ping" /\ ~pong_ok)
       THEN /\ env.drops > 0
            /\ env' = [env EXCEPT !.drops = @ - 1]
            /\ ws' = teardown(ws)
            /\ UNCHANGED <<ws_update_rx, hist>>
       ELSE /\ env.reads > 0
            /\ env' = [env EXCEPT !.reads = @ - 1]
            /\ UNCHANGED <<ws, ws_update_rx, hist>>
    /\ UNCHANGED <<config, queue, price_book, now, positions, rm_ret, rm_open, seen_markets, pending_retries,
                   fetch_tasks, retry_rx, active_markets, asset_map, sub_requests,
                   subscribe_rx, pnl_positions, pc>>

\* read.next() returns None: the pattern Some(msg) does not match, which disables the
\* branch for this select! only; the flush tick is always there to complete it, so
\* `else => break` is never taken and the loop goes round with the stream finished
stream_end(w) == [w EXCEPT !.ended = TRUE]

\* the inbound stream of the connection ends without a close frame and without an error
WsStreamEnd ==
    /\ ws.phase = "live"
    /\ ~ws.ended
    /\ env.ends > 0
    /\ env' = [env EXCEPT !.ends = @ - 1]
    /\ ws' = stream_end(ws)
    /\ UNCHANGED <<config, queue, price_book, now, positions, rm_ret, rm_open, seen_markets,
                   pending_retries, fetch_tasks, retry_rx, ws_update_rx, active_markets,
                   asset_map, sub_requests, subscribe_rx, pnl_positions, pc, hist>>

\* a caller hands a vector of asset ids to ClobWebSocket::subscribe
WsSubscribeCall(asset_ids) ==
    /\ asset_ids \in env.sub_vecs
    /\ env.subs > 0
    /\ env' = [env EXCEPT !.subs = @ - 1]
    /\ subscribe_rx' = subscribe(subscribe_rx, asset_ids)
    /\ sub_requests' = sub_requests \cup SeqToSet(asset_ids)
    /\ UNCHANGED <<ws, config, queue, price_book, now, positions, rm_ret, rm_open, seen_markets,
                   pending_retries, fetch_tasks, retry_rx, ws_update_rx, active_markets,
                   asset_map, pnl_positions, pc, hist>>

(***************************************************************************)
(* The run() loop.  pc.at = "select" is the tokio::select! point; the      *)
(* new-market branch awaits get_market_details inline (pc.at =             *)
(* "await_fetch") and serves no other branch until the call returns.       *)
(***************************************************************************)
AtSelect == pc.at = "select"

\* faulty variant: the error of a failed sub-operation is returned from run()
run_continues_propagated(ok) == IF ok THEN [at |-> "select"] ELSE [at |-> "returned"]

\* the end of a select! branch: every fallible call in it is matched, unwrapped with a
\* default or logged, whether it failed or not, and the loop goes to the next select!
run_continues(ok) == [at |-> "select"]

\* WebSocket events (New Markets) branch, up to the awaited get_market_details
NewMarketEvent(condition_id) ==
    /\ AtSelect
    /\ condition_id \in env.markets
    /\ env.inputs > 0 /\ env.events > 0
    /\ env' = [env EXCEPT !.inputs = @ - 1, !.events = @ - 1]
    /\ IF condition_id \in seen_markets
       THEN UNCHANGED <<active_markets, asset_map, sub_requests, subscribe_rx, pc>>
       ELSE LET ids == derive_asset_ids(condition_id)
            IN /\ asset_map' = MapInsert(MapInsert(asset_map, ids.yes_id,
                                                   <<condition_id, "YES">>),
                                         ids.no_id, <<condition_id, "NO">>)
               /\ active_markets' = MapInsert(active_markets, condition_id,
                                              synthetic_market(condition_id))
               /\ sub_requests' = IF config.ws_enabled
                                  THEN sub_requests \cup {ids.yes_id, ids.no_id}
                                  ELSE sub_requests
               /\ subscribe_rx' = IF config.ws_enabled
                                  THEN subscribe(subscribe_rx, <<ids.yes_id, ids.no_id>>)
                                  ELSE subscribe_rx
               /\ pc' = [at |-> "await_fetch", cid |-> condition_id]
    /\ UNCHANGED <<ws, config, queue, price_book, now, positions, rm_ret, rm_open, seen_markets, pending_retries,
                   fetch_tasks, retry_rx, ws_update_rx, pnl_positions, hist>>

\* the awaited get_market_details of the new-market branch returns
ImmediateFetchReturn(condition_id, result, ch) ==
    /\ pc = [at |-> "await_fetch", cid |-> condition_id]
    /\ IF result.ok
       THEN /\ IF result.market.id \notin seen_markets
               THEN /\ seen_markets' = seen_insert(seen_markets, result.market.id)
                    /\ Commit(first_time_process(
                           [SniperState EXCEPT
                               !.active_markets = MapInsert(@, result.market.id, result.market)],
                           result.market, ch))
               ELSE /\ hist' = [hist EXCEPT !.skipped = @ + 1]
                    /\ UNCHANGED <<seen_markets, active_markets, asset_map, sub_requests, subscribe_rx,
                                   positions, pnl_positions>>
            /\ UNCHANGED <<pending_retries, env>>
       ELSE /\ env.inputs > 0 /\ env.fails > 0
            /\ env' = [env EXCEPT !.inputs = @ - 1, !.fails = @ - 1]
            /\ pending_retries' = Append(pending_retries, <<condition_id, 1>>)
            /\ hist' = [hist EXCEPT !.chains = @ + 1,
                                    !.failed = @ \cup {"get_market_details"}]
            /\ UNCHANGED <<seen_markets, active_markets, asset_map, sub_requests, subscribe_rx,
                           positions, pnl_positions>>
    /\ pc' = run_continues(hist'.failed = hist.failed)
    /\ UNCHANGED <<ws, config, queue, price_book, now, rm_ret, rm_open, fetch_tasks, retry_rx, ws_update_rx>>

\* let batch_size = 20
batch_size == 20

\* faulty variant: one tick takes the whole queue
retry_batch_all(pending) == pending

\* the entries one tick pops: `for _ in 0..batch_size` with pop_front, until the queue
\* is empty
retry_batch(pending) ==
    SubSeq(pending, 1, IF Len(pending) < batch_size THEN Len(pending) ELSE batch_size)

\* retry_interval branch: up to batch_size entries leave the queue; an entry whose
\* market is seen is dropped, every other one becomes a spawned fetch task
RetryFlush ==
    /\ AtSelect
    /\ pending_retries # <<>>
    /\ LET batch == retry_batch(pending_retries)
           n == Len(batch)
           spawn == {j \in 1..n : batch[j][1] \notin seen_markets}
       IN /\ pending_retries' = SubSeq(pending_retries, n + 1, Len(pending_retries))
          /\ fetch_tasks' = fetch_tasks (+) BagOfSeq(batch, spawn)
          /\ hist' = [hist EXCEPT !.dispatched = @ + Cardinality(spawn),
                                  !.flush = [done |-> TRUE, popped |-> n,
                                             spawned |-> Cardinality(spawn),
                                             left |-> Len(pending_retries) - n]]
    /\ UNCHANGED <<ws, config, queue, price_book, now, positions, rm_ret, rm_open, seen_markets, retry_rx,
                   ws_update_rx, active_markets, asset_map, sub_requests, subscribe_rx, pnl_positions,
                   pc, env>>

\* a spawned task: client.get_market_details(&cid) finishes and the result is sent
FetchTaskComplete(task, result) ==
    /\ BagIn(task, fetch_tasks)
    /\ fetch_tasks' = fetch_tasks (-) SetToBag({task})
    /\ retry_rx' = Append(retry_rx, [cid |-> task[1], attempts |-> task[2], result |-> result])
    /\ IF result.ok THEN UNCHANGED env
       ELSE /\ env.inputs > 0 /\ env.fails > 0
            /\ env' = [env EXCEPT !.inputs = @ - 1, !.fails = @ - 1]
    /\ UNCHANGED <<ws, config, queue, price_book, now, positions, rm_ret, rm_open, seen_markets, pending_retries,
                   ws_update_rx, active_markets, asset_map, sub_requests, subscribe_rx, pnl_positions,
                   pc, hist>>

\* Async Retry Results branch
RetryResult(ch) ==
    /\ AtSelect
    /\ retry_rx # <<>>
    /\ retry_rx' = Tail(retry_rx)
    /\ LET msg == Head(retry_rx)
       IN IF msg.result.ok
          THEN /\ IF msg.result.market.id \notin seen_markets
                  THEN /\ seen_markets' = seen_insert(seen_markets, msg.result.market.id)
                       /\ Commit(first_time_process(SniperState, msg.result.market, ch))
                  ELSE /\ hist' = [hist EXCEPT !.skipped = @ + 1]
                       /\ UNCHANGED <<seen_markets, active_markets, asset_map, sub_requests, subscribe_rx,
                                      positions, pnl_positions>>
               /\ UNCHANGED pending_retries
          ELSE /\ pending_retries' = IF retry_again(msg.attempts)
                                     THEN Append(pending_retries, <<msg.cid, msg.attempts + 1>>)
                                     ELSE pending_retries
               /\ hist' = [hist EXCEPT !.failed = @ \cup {"get_market_details"}]
               /\ UNCHANGED <<seen_markets, active_markets, asset_map, sub_requests, subscribe_rx,
                              positions, pnl_positions>>
    /\ pc' = run_continues(hist'.failed = hist.failed)
    /\ UNCHANGED <<ws, config, queue, price_book, now, rm_ret, rm_open, fetch_tasks, ws_update_rx, env>>

\* a price string of a PriceLevel: a decimal number of cents, or text that is no number
PriceText(cents) == [num |-> TRUE, cents |-> cents]
NotANumber == [num |-> FALSE]

\* best_ask.price.parse::<f64>().unwrap_or(0.0)
parse_price(text) == IF text.num THEN text.cents ELSE 0

\* the stream client hands an OrderbookUpdate to the update channel
WsDeliver(asset_id, asks) ==
    /\ config.ws_enabled
    /\ asset_id \in sub_requests
    /\ env.inputs > 0 /\ env.ticks > 0
    /\ env' = [env EXCEPT !.inputs = @ - 1, !.ticks = @ - 1]
    /\ ws_update_rx' = Append(ws_update_rx, [asset_id |-> asset_id, asks |-> asks])
    /\ hist' = [hist EXCEPT !.received = Append(@, [asset_id |-> asset_id, asks |-> asks])]
    /\ UNCHANGED <<ws, config, queue, price_book, now, positions, rm_ret, rm_open, seen_markets, pending_retries,
                   fetch_tasks, retry_rx, active_markets, asset_map, sub_requests, subscribe_rx,
                   pnl_positions, pc>>

\* CLOB Orderbook Updates branch
HandleTick(ch) ==
    /\ AtSelect
    /\ ws_update_rx # <<>>
    /\ ws_update_rx' = Tail(ws_update_rx)
    /\ LET update == Head(ws_update_rx)
       IN IF /\ update.asset_id \in DOMAIN asset_map
             /\ asset_map[update.asset_id][1] \in DOMAIN active_markets
             /\ update.asks # <<>>
          THEN LET market_id == asset_map[update.asset_id][1]
                   side == asset_map[update.asset_id][2]
                   price == parse_price(update.asks[1])
                   market == IF side = "YES"
                             THEN [active_markets[market_id] EXCEPT !.yes_price = price]
                             ELSE [active_markets[market_id] EXCEPT !.no_price = price]
               IN Commit(process_single_market(
                      [SniperState EXCEPT !.active_markets = MapInsert(@, market_id, market),
                                          !.hist.applied = Append(@, update)],
                      market, ch))
          ELSE /\ hist' = [hist EXCEPT !.applied = Append(@, update)]
               /\ UNCHANGED <<active_markets, asset_map, sub_requests, subscribe_rx,
                              positions, pnl_positions>>
    /\ pc' = run_continues(hist'.failed = hist.failed)
    /\ UNCHANGED <<ws, config, queue, price_book, now, rm_ret, rm_open, seen_markets, pending_retries, fetch_tasks,
                   retry_rx, env>>

\* the "SUBSEQUENT RUNS" loop of process_markets: unseen markets are marked seen first,
\* then processed in list order
RECURSIVE process_new_markets(_, _, _)
process_new_markets(st, new_markets, ch) ==
    IF new_markets = <<>> THEN st
    ELSE process_new_markets(first_time_process(st, Head(new_markets), ch),
                             Tail(new_markets), ch)

MarketIds(all_markets) == {all_markets[j].id : j \in 1..Len(all_markets)}

\* Polling branch: process_markets with the answer of get_active_markets
Poll(result, ch) ==
    /\ AtSelect
    /\ env.inputs > 0 /\ env.polls > 0
    /\ env' = [env EXCEPT !.inputs = @ - 1, !.polls = @ - 1]
    /\ IF ~result.ok
       THEN /\ hist' = [hist EXCEPT !.failed = @ \cup {"get_active_markets"}]
            /\ UNCHANGED <<seen_markets, active_markets, asset_map, sub_requests, subscribe_rx,
                           positions, pnl_positions>>
       ELSE IF seen_markets = {} /\ ~config.scan_existing_on_startup
       THEN /\ seen_markets' = seen_markets \cup MarketIds(result.markets)
            /\ Commit(manage_positions(SniperState, result.markets, ch))
       ELSE LET new_markets == SelectSeq(result.markets,
                                         LAMBDA m : m.id \notin seen_markets)
            IN /\ seen_markets' = seen_markets \cup MarketIds(new_markets)
               /\ Commit(manage_positions(
                      process_new_markets(SniperState, new_markets, ch),
                      result.markets, ch))
    /\ pc' = run_continues(hist'.failed = hist.failed)
    /\ UNCHANGED <<ws, config, queue, price_book, now, rm_ret, rm_open, pending_retries, fetch_tasks, retry_rx,
                   ws_update_rx>>

\* the answers get_active_markets can give: an error, or a list without repeated ids
PollResults ==
    LET listed == UNION {ApiMarkets(m) : m \in env.markets}
    IN {[ok |-> FALSE]}
       \cup {[ok |-> TRUE, markets |-> <<>>]}
       \cup {[ok |-> TRUE, markets |-> <<a>>] : a \in listed}
       \cup {[ok |-> TRUE, markets |-> <<ab[1], ab[2]>>] :
                ab \in {xy \in listed \X listed : xy[1].id # xy[2].id}}

\* the answers get_market_details(cid) can give
FetchResults(condition_id) == {FetchErr} \cup {FetchOk(a) : a \in ApiMarkets(condition_id)}

TickAsks == {<<>>, <<NotANumber>>} \cup {<<PriceText(c)>> : c \in {40, 55}}

\* RedemptionManager::parse_bytes32: the id must be the hex text of 32 bytes, as a
\* condition id is; a trade id ("arb_..._YES") is not
parse_bytes32_ok(id) == id \in Markets

\* the loop of the redemption branch over the positions read at its start:
\* res[p] is the answer for position p
RECURSIVE redeem_each(_, _, _)
redeem_each(st, todo, res) ==
    IF todo = {} THEN st
    ELSE LET pos == CHOOSE p \in todo : TRUE
             r == IF parse_bytes32_ok(pos.market_id) THEN res[pos] ELSE "check_failed"
             st0 == IF parse_bytes32_ok(pos.market_id)
                    THEN [st EXCEPT !.hist.redeem.asked = @ \cup {pos.market_id}]
                    ELSE st
             st1 == IF r = "check_failed"
                    THEN [st0 EXCEPT !.hist.failed = @ \cup {"resolution"}]
                    ELSE IF r = "redeem_failed"
                    THEN [st0 EXCEPT !.hist.failed = @ \cup {"redemption"}]
                    ELSE IF r = "redeemed"
                    THEN [st0 EXCEPT !.positions = remove_position(@, pos.market_id)]
                    ELSE st0
         IN redeem_each(st1, todo \ {pos}, res)

\* redemption_interval branch: every position is checked for resolution
\* ("check_failed", "unresolved") and, if resolved, redeemed ("redeemed",
\* "redeem_failed"); a redeemed position is removed from the risk manager
RedemptionTick(res) ==
    /\ AtSelect
    /\ env.inputs > 0 /\ env.redeems > 0
    /\ env' = [env EXCEPT !.inputs = @ - 1, !.redeems = @ - 1]
    /\ LET st == redeem_each([SniperState EXCEPT
                                  !.hist.redeem = [done |-> TRUE, before |-> positions,
                                                   res |-> res, asked |-> {},
                                                   after |-> {}]],
                              get_positions(positions), res)
       IN Commit([st EXCEPT !.hist.redeem.after = DOMAIN st.positions])
    /\ pc' = run_continues(hist'.failed = hist.failed)
    /\ UNCHANGED <<ws, config, queue, price_book, now, rm_ret, rm_open, seen_markets, pending_retries, fetch_tasks,
                   retry_rx, ws_update_rx>>

(***************************************************************************)
(* The pipeline: one market stream, events, ticks and polls                *)
(***************************************************************************)
\* the number of things the outside world does in a run: new-market events, failed
\* fetches, orderbook updates and poll answers together
MaxInputs == 3

Init ==
    /\ config \in {c \in RiskConfigs : c.min_hold_time_secs = 2 /\ ~c.use_dynamic_sl}
    /\ now = 0
    /\ positions = EmptyMap
    /\ rm_ret = NoCall
    /\ queue = NoQueue
    /\ price_book = EmptyBook
    /\ rm_open = {}
    /\ env = [markets |-> {<<"m1">>},
              inputs |-> MaxInputs, events |-> MaxInputs, fails |-> MaxInputs,
              ticks |-> MaxInputs, polls |-> MaxInputs,
              quotes |-> {<<40, 40>>, <<0, 0>>}, volumes |-> {2000}, yes_first |-> {FALSE},
              balances |-> {[ok |-> TRUE, value |-> 5000], [ok |-> TRUE, value |-> 100000]},
              fail_legs |-> {"none"}, close_ok |-> {TRUE},
              tick_asks |-> {<<PriceText(40)>>}]
    /\ SniperIdle

Next ==
    \/ \E m \in Markets : NewMarketEvent(m)
    \/ \E m \in Markets : \E r \in FetchResults(m), ch \in Choices :
          ImmediateFetchReturn(m, r, ch)
    \/ RetryFlush
    \/ \E t \in BagToSet(fetch_tasks) : \E r \in FetchResults(t[1]) : FetchTaskComplete(t, r)
    \/ \E ch \in Choices : RetryResult(ch)
    \/ \E a \in AssetIds, asks \in env.tick_asks : WsDeliver(a, asks)
    \/ \E ch \in Choices : HandleTick(ch)
    \/ \E r \in PollResults, ch \in Choices : Poll(r, ch)
    \/ ClockTick

Spec == Init /\ [][Next]_vars

(***************************************************************************)
(* Metadata synchronisation alone: new-market events whose fetches may     *)
(* fail as often as a whole retry chain needs; markets without a quote     *)
(***************************************************************************)
\* the number of new-market events, each of which can begin a retry chain
MaxChains == 1

InitRetry ==
    /\ config \in {c \in RiskConfigs : c.min_hold_time_secs = 2 /\ ~c.use_dynamic_sl
                                        /\ c.scan_existing_on_startup}
    /\ now = 0
    /\ positions = EmptyMap
    /\ rm_ret = NoCall
    /\ queue = NoQueue
    /\ price_book = EmptyBook
    /\ rm_open = {}
    /\ env = [markets |-> {<<"m1">>},
              inputs |-> (max_attempts + 2) * MaxChains, events |-> MaxChains,
              fails |-> (max_attempts + 1) * MaxChains, ticks |-> 0, polls |-> 0,
              quotes |-> {<<0, 0>>}, volumes |-> {2000}, yes_first |-> {FALSE},
              balances |-> {[ok |-> TRUE, value |-> 100000]},
              fail_legs |-> {"none"}, close_ok |-> {TRUE},
              tick_asks |-> {}]
    /\ SniperIdle

NextRetry ==
    \/ \E m \in Markets : NewMarketEvent(m)
    \/ \E m \in Markets : \E r \in FetchResults(m), ch \in Choices :
          ImmediateFetchReturn(m, r, ch)
    \/ RetryFlush
    \/ \E t \in BagToSet(fetch_tasks) : \E r \in FetchResults(t[1]) : FetchTaskComplete(t, r)
    \/ \E ch \in Choices : RetryResult(ch)

SpecRetry == InitRetry /\ [][NextRetry]_vars

(***************************************************************************)
(* Market discovery alone: two markets found through events, retries and   *)
(* polls, none of them with a quote to trade on                            *)
(***************************************************************************)
InitSync ==
    /\ config \in {c \in RiskConfigs : c.min_hold_time_secs = 2 /\ ~c.use_dynamic_sl}
    /\ now = 0
    /\ positions = EmptyMap
    /\ rm_ret = NoCall
    /\ queue = NoQueue
    /\ price_book = EmptyBook
    /\ rm_open = {}
    /\ env = [markets |-> Markets,
              inputs |-> MaxInputs + 3, events |-> MaxInputs + 3, fails |-> MaxInputs + 3,
              ticks |-> 0, polls |-> MaxInputs + 3,
              quotes |-> {<<0, 0>>}, volumes |-> {2000}, yes_first |-> {FALSE},
              balances |-> {[ok |-> TRUE, value |-> 100000]},
              fail_legs |-> {"none"}, close_ok |-> {TRUE},
              tick_asks |-> {}]
    /\ SniperIdle

NextSync ==
    \/ \E m \in Markets : NewMarketEvent(m)
    \/ \E m \in Markets : \E r \in FetchResults(m), ch \in Choices :
          ImmediateFetchReturn(m, r, ch)
    \/ RetryFlush
    \/ \E t \in BagToSet(fetch_tasks) : \E r \in FetchResults(t[1]) : FetchTaskComplete(t, r)
    \/ \E ch \in Choices : RetryResult(ch)
    \/ \E r \in PollResults, ch \in Choices : Poll(r, ch)

SpecSync == InitSync /\ [][NextSync]_vars

(***************************************************************************)
(* The whole loop with failing sub-operations: failed polls and fetches,   *)
(* a failing balance query, failing orders, failing resolution checks      *)
(***************************************************************************)
InitErr ==
    /\ config \in {c \in RiskConfigs : c.min_hold_time_secs = 2 /\ ~c.use_dynamic_sl
                                        /\ c.scan_existing_on_startup}
    /\ now = 0
    /\ positions = EmptyMap
    /\ rm_ret = NoCall
    /\ queue = NoQueue
    /\ price_book = EmptyBook
    /\ rm_open = {}
    /\ env = [markets |-> {<<"m1">>},
              inputs |-> MaxInputs + 2, events |-> 1, fails |-> 1,
              ticks |-> 1, polls |-> 1, redeems |-> 1,
              quotes |-> {<<40, 40>>}, volumes |-> {2000}, yes_first |-> {FALSE},
              balances |-> {[ok |-> TRUE, value |-> 100000], [ok |-> FALSE]},
              fail_legs |-> {"none", "YES", "NO"}, close_ok |-> BOOLEAN,
              tick_asks |-> {<<PriceText(40)>>},
              resolutions |-> {"check_failed", "unresolved", "redeemed", "redeem_failed"}]
    /\ SniperIdle

NextErr ==
    \/ \E m \in Markets : NewMarketEvent(m)
    \/ \E m \in Markets : \E r \in FetchResults(m), ch \in Choices :
          ImmediateFetchReturn(m, r, ch)
    \/ RetryFlush
    \/ \E t \in BagToSet(fetch_tasks) : \E r \in FetchResults(t[1]) : FetchTaskComplete(t, r)
    \/ \E ch \in Choices : RetryResult(ch)
    \/ \E a \in AssetIds, asks \in env.tick_asks : WsDeliver(a, asks)
    \/ \E ch \in Choices : HandleTick(ch)
    \/ \E r \in PollResults, ch \in Choices : Poll(r, ch)
    \/ \E res \in [get_positions(positions) -> env.resolutions] : RedemptionTick(res)

SpecErr == InitErr /\ [][NextErr]_vars

(***************************************************************************)
(* Functions called on their own, each on inputs drawn from a small set;   *)
(* the call with its arguments and its result is kept in hist.call         *)
(***************************************************************************)
\* a call returns: nothing but the log of the call changes
CallFrame ==
    UNCHANGED <<config, queue, price_book, now, positions, rm_ret, rm_open, seen_markets, pending_retries,
                fetch_tasks, retry_rx, ws_update_rx, active_markets, asset_map,
                sub_requests, subscribe_rx, ws, pnl_positions, pc, env>>

\* the snapshots the detector is called on: every pair of prices of the grid
Snapshots ==
    {ApiMarket(m, <<y, n>>, v, FALSE) : m \in Markets, y \in PriceGrid, n \in PriceGrid,
                                        v \in {0, 2000}}

CallCheckOpportunity(market) ==
    /\ hist' = [hist EXCEPT !.call =
                     [op |-> "check_opportunity", market |-> market,
             ret |-> check_opportunity(market)]]
    /\ CallFrame

InitCalls ==
    /\ config \in {[c EXCEPT !.min_edge_bps = e, !.stop_loss_pct = sl] :
                      c \in {d \in RiskConfigs : d.min_hold_time_secs = 2 /\ ~d.use_dynamic_sl
                                                   /\ d.scan_existing_on_startup},
                      e \in {20, 200}, sl \in {500, 1200, 1500}}
    /\ now = 0
    /\ positions = EmptyMap
    /\ rm_ret = NoCall
    /\ queue = NoQueue
    /\ price_book = EmptyBook
    /\ rm_open = {}
    /\ env = [markets |-> Markets]
    /\ SniperIdle

\* the arguments calculate_optimal_size is called on: edge in basis points, win
\* probability and volatility in percent, capital in cents
SizerEdges == {-50, 0, 1, 200, 600, 1919, 9820, 10000}
SizerWinProbabilities == {0, 50, 95, 98, 100}
SizerCapitals == {0, 50000, 100000}
SizerVolatilities == {0, 10, 200}

CallOptimalSize(edge_bps, win_probability, capital, volatility) ==
    /\ hist' = [hist EXCEPT !.call =
                     [op |-> "calculate_optimal_size",
             ret |-> calculate_optimal_size(edge_bps, win_probability, capital, volatility),
             capital |-> capital, edge_bps |-> edge_bps,
             win_probability |-> win_probability, volatility |-> volatility]]
    /\ CallFrame

\* OrderBook (polymarket/types.rs): asks is an array of 50 levels of which the first
\* ask_count are active; the arrays of the model hold MaxLevels levels
MaxLevels == 3

\* OrderLevel, price in cents; OrderLevel::default() is the level of price 0 and size 0
OrderLevels == {[size |-> 0, price |-> 0], [size |-> 10, price |-> 55],
                [size |-> 5, price |-> 60]}

\* the order books the helpers are called on: the fields are public, so every array
\* of levels with every count of active levels
OrderBooks ==
    [asks : [1..MaxLevels -> OrderLevels], ask_count : 0..MaxLevels]

\* faulty variant: the last active level is returned
best_ask_last(book) ==
    IF book.ask_count > 0 THEN Some(book.asks[book.ask_count].price) ELSE None

\* OrderBook::best_ask
best_ask(book) ==
    IF book.ask_count > 0 THEN Some(book.asks[1].price) ELSE None

\* levels.iter().map(|level| level.size).sum()
RECURSIVE SumOfSizes(_)
SumOfSizes(levels) ==
    IF levels = <<>> THEN 0 ELSE Head(levels).size + SumOfSizes(Tail(levels))

\* OrderBook::total_ask_liquidity
total_ask_liquidity(book) == SumOfSizes(SubSeq(book.asks, 1, book.ask_count))

CallBestAsk(book) ==
    /\ hist' = [hist EXCEPT !.call =
                     [op |-> "best_ask", ret |-> best_ask(book), book |-> book]]
    /\ CallFrame

CallTotalAskLiquidity(book) ==
    /\ hist' = [hist EXCEPT !.call =
                     [op |-> "total_ask_liquidity", ret |-> total_ask_liquidity(book), book |-> book]]
    /\ CallFrame

InitBook ==
    /\ config \in {c \in RiskConfigs : c.min_hold_time_secs = 2 /\ ~c.use_dynamic_sl
                                        /\ c.scan_existing_on_startup}
    /\ now = 0
    /\ positions = EmptyMap
    /\ rm_ret = NoCall
    /\ queue = NoQueue
    /\ price_book = EmptyBook
    /\ rm_open = {}
    /\ env = [markets |-> Markets]
    /\ SniperIdle

NextBook ==
    \/ \E book \in OrderBooks : CallBestAsk(book)
    \/ \E book \in OrderBooks : CallTotalAskLiquidity(book)

SpecBook == InitBook /\ [][NextBook]_vars

\* the entry prices, in cents, get_dynamic_threshold is called on
ThresholdEntries == {0, 50, 59, 60, 69, 70, 79, 80, 89, 90, 99, 100}

CallDynamicThreshold(entry_price) ==
    /\ hist' = [hist EXCEPT !.call =
                     [entry_price |-> entry_price, op |-> "get_dynamic_threshold",
             ret |-> get_dynamic_threshold(entry_price)]]
    /\ CallFrame

NextCalls ==
    \/ \E e \in ThresholdEntries : CallDynamicThreshold(e)
    \/ \E market \in Snapshots : CallCheckOpportunity(market)
    \/ \E e \in SizerEdges, p \in SizerWinProbabilities, c \in SizerCapitals,
           v \in SizerVolatilities : CallOptimalSize(e, p, c, v)

SpecCalls == InitCalls /\ [][NextCalls]_vars

(***************************************************************************)
(* OrderBookQueue (polymarket/lockfree_queue.rs) over crossbeam's          *)
(* ArrayQueue: one producer pushes, one consumer pops and reads the        *)
(* length; each call takes effect at one instant                           *)
(***************************************************************************)
MaxCapacity == 3
MaxPushes == 4

\* OrderBook::new() at second t: no level is active
OrderBookNew(t) == [timestamp |-> t, ask_count |-> 0, bid_count |-> 0]

\* faulty variant: a push on a full queue makes room by dropping the oldest item
push_forced(q, orderbook) ==
    IF Len(q.items) < q.capacity
    THEN [ret |-> TRUE, queue |-> [q EXCEPT !.items = Append(@, orderbook)]]
    ELSE [ret |-> FALSE, queue |-> [q EXCEPT !.items = Append(Tail(@), orderbook)]]

\* self.queue.push(orderbook).is_ok(): ArrayQueue::push gives the value back in Err
\* when the queue is full, and is_ok() drops it
push(q, orderbook) ==
    IF Len(q.items) < q.capacity
    THEN [ret |-> TRUE, queue |-> [q EXCEPT !.items = Append(@, orderbook)]]
    ELSE [ret |-> FALSE, queue |-> q]

\* self.queue.pop()
pop(q) ==
    IF q.items = <<>> THEN [ret |-> None, queue |-> q]
    ELSE [ret |-> Some(Head(q.items)), queue |-> [q EXCEPT !.items = Tail(@)]]

\* self.queue.len()
len(q) == Len(q.items)

\* a call on the queue leaves everything but the queue and the log of the call
QueueFrame ==
    UNCHANGED <<config, price_book, now, positions, rm_ret, rm_open, seen_markets, pending_retries,
                fetch_tasks, retry_rx, ws_update_rx, active_markets, asset_map,
                sub_requests, subscribe_rx, ws, pnl_positions, pc>>

\* the producer
QueuePush(orderbook) ==
    /\ env.pushes > 0
    /\ env' = [env EXCEPT !.pushes = @ - 1]
    /\ hist' = [hist EXCEPT !.call = [op |-> "push", before |-> queue,
                                      ret |-> push(queue, orderbook).ret,
                                      orderbook |-> orderbook]]
    /\ queue' = push(queue, orderbook).queue
    /\ QueueFrame

\* the consumer
QueuePop ==
    /\ hist' = [hist EXCEPT !.call = [op |-> "pop", before |-> queue, ret |-> pop(queue).ret]]
    /\ queue' = pop(queue).queue
    /\ UNCHANGED env
    /\ QueueFrame

QueueLen ==
    /\ hist' = [hist EXCEPT !.call = [op |-> "len", before |-> queue, ret |-> len(queue)]]
    /\ UNCHANGED <<queue, env>>
    /\ QueueFrame

InitQueue ==
    /\ config \in {c \in RiskConfigs : c.min_hold_time_secs = 2 /\ ~c.use_dynamic_sl
                                        /\ c.scan_existing_on_startup}
    /\ now = 0
    /\ positions = EmptyMap
    /\ rm_ret = NoCall
    /\ rm_open = {}
    /\ queue \in {[capacity |-> n, items |-> <<>>] : n \in 1..MaxCapacity}
    /\ price_book = EmptyBook
    /\ env = [markets |-> Markets, pushes |-> MaxPushes]
    /\ SniperIdle

NextQueue ==
    \/ \E t \in 1..2 : QueuePush(OrderBookNew(t))
    \/ QueuePop
    \/ QueueLen

SpecQueue == InitQueue /\ [][NextQueue]_vars

(***************************************************************************)
(* Market discovery with and without the stream client (simulation mode    *)
(* builds no ClobWebSocket)                                                *)
(***************************************************************************)
InitEvent ==
    /\ config \in {[c EXCEPT !.ws_enabled = w] :
                      c \in {d \in RiskConfigs : d.min_hold_time_secs = 2 /\ ~d.use_dynamic_sl
                                                   /\ d.scan_existing_on_startup},
                      w \in BOOLEAN}
    /\ now = 0
    /\ positions = EmptyMap
    /\ rm_ret = NoCall
    /\ queue = NoQueue
    /\ price_book = EmptyBook
    /\ rm_open = {}
    /\ env = [markets |-> Markets,
              inputs |-> MaxInputs + 3, events |-> MaxInputs + 3, fails |-> MaxInputs + 3,
              ticks |-> 0, polls |-> MaxInputs + 3,
              quotes |-> {<<0, 0>>}, volumes |-> {2000}, yes_first |-> {FALSE},
              balances |-> {[ok |-> TRUE, value |-> 100000]},
              fail_legs |-> {"none"}, close_ok |-> {TRUE},
              tick_asks |-> {}]
    /\ SniperIdle

SpecEvent == InitEvent /\ [][NextSync]_vars

(***************************************************************************)
(* One market whose metadata can be below the volume minimum: event,       *)
(* failing and succeeding fetches, retries and ticks                       *)
(***************************************************************************)
InitFilter ==
    /\ config \in {c \in RiskConfigs : c.min_hold_time_secs = 2 /\ ~c.use_dynamic_sl
                                        /\ c.scan_existing_on_startup}
    /\ now = 0
    /\ positions = EmptyMap
    /\ rm_ret = NoCall
    /\ queue = NoQueue
    /\ price_book = EmptyBook
    /\ rm_open = {}
    /\ env = [markets |-> {<<"m1">>},
              inputs |-> MaxInputs + 2, events |-> 1, fails |-> 1,
              ticks |-> MaxInputs, polls |-> 0,
              quotes |-> {<<40, 40>>, <<0, 0>>}, volumes |-> {0, 2000},
              yes_first |-> {FALSE},
              balances |-> {[ok |-> TRUE, value |-> 100000]},
              fail_legs |-> {"none"}, close_ok |-> {TRUE},
              tick_asks |-> {<<PriceText(40)>>}]
    /\ SniperIdle

NextFilter ==
    \/ \E m \in Markets : NewMarketEvent(m)
    \/ \E m \in Markets : \E r \in FetchResults(m), ch \in Choices :
          ImmediateFetchReturn(m, r, ch)
    \/ RetryFlush
    \/ \E t \in BagToSet(fetch_tasks) : \E r \in FetchResults(t[1]) : FetchTaskComplete(t, r)
    \/ \E ch \in Choices : RetryResult(ch)
    \/ \E a \in AssetIds, asks \in env.tick_asks : WsDeliver(a, asks)
    \/ \E ch \in Choices : HandleTick(ch)

SpecFilter == InitFilter /\ [][NextFilter]_vars

(***************************************************************************)
(* The stream client with its callers: a new-market event and its fetch    *)
(* (two subscribe calls for the same ids), a bulk subscribe call, flush    *)
(* ticks, write failures, pings, close frames, read errors, failed         *)
(* connection attempts                                                     *)
(***************************************************************************)
\* torn-down connections and failed connection attempts in a run
MaxDrops == 2

\* flush ticks in a run
MaxFlushes == 2

\* chunk_size + 1 distinct ids, handed over in descending order with one repeated
BulkVec ==
    [i \in 1..(chunk_size + 2) |->
        <<"bulk", IF i > chunk_size + 1 THEN 1 ELSE chunk_size + 2 - i>>]

InitWs ==
    /\ config \in {c \in RiskConfigs : c.min_hold_time_secs = 2 /\ ~c.use_dynamic_sl
                                        /\ c.scan_existing_on_startup}
    /\ now = 0
    /\ positions = EmptyMap
    /\ rm_ret = NoCall
    /\ queue = NoQueue
    /\ price_book = EmptyBook
    /\ rm_open = {}
    /\ env = [markets |-> {<<"m1">>},
              inputs |-> 1, events |-> 1, fails |-> 0, ticks |-> 0, polls |-> 0,
              quotes |-> {<<0, 0>>}, volumes |-> {2000}, yes_first |-> {FALSE},
              balances |-> {[ok |-> TRUE, value |-> 100000]},
              fail_legs |-> {"none"}, close_ok |-> {TRUE}, tick_asks |-> {},
              drops |-> MaxDrops, flushes |-> MaxFlushes, write_fails |-> 1, reads |-> 1,
              frames |-> {ControlFrame("ping"), ControlFrame("pong"), ControlFrame("close"),
                          ControlFrame("error")},
              sub_vecs |-> {BulkVec}, subs |-> 1]
    /\ SniperIdle

NextWs ==
    \/ \E m \in Markets : NewMarketEvent(m)
    \/ \E m \in Markets : \E r \in FetchResults(m), ch \in Choices :
          ImmediateFetchReturn(m, r, ch)
    \/ \E v \in env.sub_vecs : WsSubscribeCall(v)
    \/ \E ok \in BOOLEAN : WsConnect(ok)
    \/ WsSleepTick
    \/ WsRecvSubscribe
    \/ \E failed \in SUBSET (1..2) : WsFlush(failed)
    \/ \E f \in env.frames, pong_ok \in BOOLEAN : WsRead(f, pong_ok)

SpecWs == InitWs /\ [][NextWs]_vars

\* the spawned task keeps running: the back-off sleep's timer fires, and connect_async
\* returns a connection when the endpoint is reachable
SpecWsFair == SpecWs /\ WF_vars(WsSleepTick) /\ WF_vars(WsConnect(TRUE))

(***************************************************************************)
(* The stream client on connections whose inbound stream may end without   *)
(* a close frame or an error, and whose writes may fail                    *)
(***************************************************************************)
InitEnd ==
    /\ config \in {c \in RiskConfigs : c.min_hold_time_secs = 2 /\ ~c.use_dynamic_sl
                                        /\ c.scan_existing_on_startup}
    /\ now = 0
    /\ positions = EmptyMap
    /\ rm_ret = NoCall
    /\ queue = NoQueue
    /\ price_book = EmptyBook
    /\ rm_open = {}
    /\ env = [markets |-> {<<"m1">>},
              inputs |-> 1, events |-> 1, fails |-> 0, ticks |-> 0, polls |-> 0,
              quotes |-> {<<0, 0>>}, volumes |-> {2000}, yes_first |-> {FALSE},
              balances |-> {[ok |-> TRUE, value |-> 100000]},
              fail_legs |-> {"none"}, close_ok |-> {TRUE}, tick_asks |-> {},
              drops |-> 1, flushes |-> MaxFlushes, write_fails |-> 1, reads |-> 1, ends |-> 1,
              frames |-> {ControlFrame("pong"), ControlFrame("close"), ControlFrame("error")},
              sub_vecs |-> {}, subs |-> 0]
    /\ SniperIdle

NextEnd ==
    \/ \E m \in Markets : NewMarketEvent(m)
    \/ \E m \in Markets : \E r \in FetchResults(m), ch \in Choices :
          ImmediateFetchReturn(m, r, ch)
    \/ \E ok \in BOOLEAN : WsConnect(ok)
    \/ WsSleepTick
    \/ WsRecvSubscribe
    \/ \E failed \in SUBSET (1..2) : WsFlush(failed)
    \/ \E f \in env.frames : WsRead(f, TRUE)
    \/ WsStreamEnd

\* the task keeps running: timers fire, connect_async returns, and the select! of a
\* connection takes a branch that is ready
SpecEnd ==
    /\ InitEnd /\ [][NextEnd]_vars
    /\ WF_vars(WsSleepTick) /\ WF_vars(WsConnect(TRUE))
    /\ WF_vars(WsRecvSubscribe) /\ WF_vars(\E failed \in SUBSET (1..2) : WsFlush(failed))

(***************************************************************************)
(* The tick path: text frames read by the stream client, handed over the   *)
(* update channel and taken by the tick branch, across a reconnect         *)
(***************************************************************************)
\* text frames read in a run
MaxReads == 2

\* a book entry of a frame: the asks are the price texts, best first
BookEntry(asset_id, cents) == [asset_id |-> asset_id, asks |-> <<PriceText(cents)>>]

TickFrames ==
    {TextFrame("array", <<BookEntry(<<"m1", "tokY">>, 40), BookEntry(<<"m1", "tokN">>, 55),
                          BookEntry(<<"m1", "tokY">>, 55)>>),
     TextFrame("price_changes", <<BookEntry(<<"m1", "tokN">>, 40),
                                  BookEntry(<<"m1", "tokN">>, 55)>>),
     TextFrame("book", <<BookEntry(<<"m1", "tokY">>, 40)>>),
     TextFrame("last_trade_price", <<BookEntry(<<"m1", "tokY">>, 99)>>),
     ControlFrame("close")}

InitTicks ==
    /\ config \in {c \in RiskConfigs : c.min_hold_time_secs = 2 /\ ~c.use_dynamic_sl
                                        /\ c.scan_existing_on_startup}
    /\ now = 0
    /\ positions = EmptyMap
    /\ rm_ret = NoCall
    /\ queue = NoQueue
    /\ price_book = EmptyBook
    /\ rm_open = {}
    /\ env = [markets |-> {<<"m1">>},
              inputs |-> 1, events |-> 1, fails |-> 0, ticks |-> 0, polls |-> 0,
              quotes |-> {<<0, 0>>}, volumes |-> {2000}, yes_first |-> {FALSE},
              balances |-> {[ok |-> TRUE, value |-> 100000]},
              fail_legs |-> {"none"}, close_ok |-> {TRUE}, tick_asks |-> {},
              drops |-> 1, flushes |-> 0, write_fails |-> 0, reads |-> MaxReads,
              frames |-> TickFrames, sub_vecs |-> {}, subs |-> 0]
    /\ SniperIdle

NextTicks ==
    \/ \E m \in Markets : NewMarketEvent(m)
    \/ \E m \in Markets : \E r \in FetchResults(m), ch \in Choices :
          ImmediateFetchReturn(m, r, ch)
    \/ \E ok \in BOOLEAN : WsConnect(ok)
    \/ WsSleepTick
    \/ \E f \in env.frames, pong_ok \in BOOLEAN : WsRead(f, pong_ok)
    \/ \E ch \in Choices : HandleTick(ch)

SpecTicks == InitTicks /\ [][NextTicks]_vars

(***************************************************************************)
(* Two markets, each announced by an event and fetched (one fetch may      *)
(* fail) with either order of its asset ids, above or below the volume     *)
(* minimum; book frames for                                                *)
(* assets of both markets, with a price, with text that is no number and   *)
(* with no ask level                                                       *)
(***************************************************************************)
FrameTicks ==
    {TextFrame("book", <<[asset_id |-> a, asks |-> asks]>>) :
        a \in {<<"m1", "tokY">>, <<"m1", "tokN">>, <<"m2", "tokY">>},
        asks \in {<<>>, <<PriceText(40)>>, <<NotANumber>>}}

InitFrame ==
    /\ config \in {c \in RiskConfigs : c.min_hold_time_secs = 2 /\ ~c.use_dynamic_sl
                                        /\ c.scan_existing_on_startup}
    /\ now = 0
    /\ positions = EmptyMap
    /\ rm_ret = NoCall
    /\ queue = NoQueue
    /\ price_book = EmptyBook
    /\ rm_open = {}
    /\ env = [markets |-> Markets,
              inputs |-> 3, events |-> 2, fails |-> 1, ticks |-> 0, polls |-> 0,
              quotes |-> {<<0, 0>>}, volumes |-> {0, 2000}, yes_first |-> BOOLEAN,
              balances |-> {[ok |-> TRUE, value |-> 100000]},
              fail_legs |-> {"none"}, close_ok |-> {TRUE}, tick_asks |-> {},
              drops |-> 0, flushes |-> 0, write_fails |-> 0, reads |-> MaxReads,
              frames |-> FrameTicks, sub_vecs |-> {}, subs |-> 0]
    /\ SniperIdle

NextFrame ==
    \/ \E m \in Markets : NewMarketEvent(m)
    \/ \E m \in Markets : \E r \in FetchResults(m), ch \in Choices :
          ImmediateFetchReturn(m, r, ch)
    \/ WsConnect(TRUE)
    \/ \E f \in env.frames : WsRead(f, TRUE)
    \/ \E ch \in Choices : HandleTick(ch)

SpecFrame == InitFrame /\ [][NextFrame]_vars

(***************************************************************************)
(* The price-level OrderBook (polymarket/orderbook.rs): BTreeMaps from a   *)
(* price key to a size.  Prices are in cents, keys and quoted prices in    *)
(* ten-thousandths, sizes in whole shares.                                 *)
(***************************************************************************)
\* the cent prices p for which the f64 product (p / 100) * 10000.0 lies just below the
\* whole number p * 100 (0.57 * 10000.0 = 5699.999999999999); there are two in 0..100
F64KeyShort == {57, 69}

\* faulty variant: the product is rounded to the nearest key
price_bps_rounded(price) == price * 100

\* (price * 10000.0) as u64: the cast truncates
price_bps(price) == IF price \in F64KeyShort THEN price * 100 - 1 ELSE price * 100

\* OrderBook::update (`update` names a tick elsewhere in this module): anything but
\* "BUY" is taken as the ask side
update_level(book, side, price, size) ==
    IF size = 0
    THEN IF side = "BUY"
         THEN [book EXCEPT !.bids = MapRemove(@, price_bps(price))]
         ELSE [book EXCEPT !.asks = MapRemove(@, price_bps(price))]
    ELSE IF side = "BUY"
         THEN [book EXCEPT !.bids = MapInsert(@, price_bps(price), size)]
         ELSE [book EXCEPT !.asks = MapInsert(@, price_bps(price), size)]

\* self.bids.values().sum()
RECURSIVE SumOfValues(_)
SumOfValues(levels) ==
    IF DOMAIN levels = {} THEN 0
    ELSE LET k == CHOOSE x \in DOMAIN levels : TRUE
         IN levels[k] + SumOfValues(MapRemove(levels, k))

\* OrderBook::calculate_imbalance: the f64 quotient, written num / den
calculate_imbalance(book) ==
    LET total_bid_size == SumOfValues(book.bids)
        total_ask_size == SumOfValues(book.asks)
    IN IF total_bid_size + total_ask_size = 0 THEN [num |-> 0, den |-> 1]
       ELSE [num |-> total_bid_size - total_ask_size,
             den |-> total_bid_size + total_ask_size]

\* OrderBook::best_quote: keys().next_back() of the bids and keys().next() of the asks,
\* each as p as f64 / 10000.0
best_quote(book) ==
    [bid |-> IF DOMAIN book.bids = {} THEN None
             ELSE Some(CHOOSE k \in DOMAIN book.bids : \A j \in DOMAIN book.bids : j <= k),
     ask |-> IF DOMAIN book.asks = {} THEN None
             ELSE Some(CHOOSE k \in DOMAIN book.asks : \A j \in DOMAIN book.asks : k <= j)]

\* the levels and sizes of the updates: 0.50 and 0.60 as in test_orderbook_logic, and
\* one price whose key falls short
BookPrices == {50, 57, 60}
BookSizes == {0, 100, 300}
BookSides == {"BUY", "SELL"}

\* a call on the book leaves everything but the book and the log
BookFrame ==
    UNCHANGED <<config, queue, now, positions, rm_ret, rm_open, seen_markets, pending_retries,
                fetch_tasks, retry_rx, ws_update_rx, active_markets, asset_map,
                sub_requests, subscribe_rx, ws, pnl_positions, pc, env>>

\* book.update(side, price, size); the log keeps the latest size given for each level
BookUpdate(side, price, size) ==
    /\ price_book' = update_level(price_book, side, price, size)
    /\ hist' = [hist EXCEPT !.call = [op |-> "update", side |-> side, price |-> price,
                                      size |-> size],
                            !.levels = MapInsert(@, <<side, price>>, size)]
    /\ BookFrame

\* book.calculate_imbalance()
BookImbalance ==
    /\ hist' = [hist EXCEPT !.call = [op |-> "calculate_imbalance",
                                      ret |-> calculate_imbalance(price_book)]]
    /\ UNCHANGED price_book
    /\ BookFrame

\* book.best_quote()
BookBestQuote ==
    /\ hist' = [hist EXCEPT !.call = [op |-> "best_quote", ret |-> best_quote(price_book)]]
    /\ UNCHANGED price_book
    /\ BookFrame

InitLevels ==
    /\ config \in {c \in RiskConfigs : c.min_hold_time_secs = 2 /\ ~c.use_dynamic_sl
                                        /\ c.scan_existing_on_startup}
    /\ now = 0
    /\ positions = EmptyMap
    /\ rm_ret = NoCall
    /\ queue = NoQueue
    /\ price_book = EmptyBook
    /\ rm_open = {}
    /\ env = [markets |-> Markets]
    /\ SniperIdle

NextLevels ==
    \/ \E side \in BookSides, price \in BookPrices, size \in BookSizes :
          BookUpdate(side, price, size)
    \/ BookImbalance
    \/ BookBestQuote

SpecLevels == InitLevels /\ [][NextLevels]_vars

(***************************************************************************)
(* One market with a standing signal (YES 0.40, NO 0.40), evaluated at its *)
(* fetch and at every tick, with balances below and above the 2 USD        *)
(* minimum and the signal's size, a failing balance query and a failing    *)
(* second leg                                                              *)
(***************************************************************************)
InitSize ==
    /\ config \in {c \in RiskConfigs : c.min_hold_time_secs = 2 /\ ~c.use_dynamic_sl
                                        /\ c.scan_existing_on_startup}
    /\ now = 0
    /\ positions = EmptyMap
    /\ rm_ret = NoCall
    /\ queue = NoQueue
    /\ price_book = EmptyBook
    /\ rm_open = {}
    /\ env = [markets |-> {<<"m1">>},
              inputs |-> MaxInputs + 1, events |-> 1, fails |-> 0,
              ticks |-> MaxInputs, polls |-> 0,
              quotes |-> {<<40, 40>>}, volumes |-> {2000}, yes_first |-> {FALSE},
              balances |-> {[ok |-> FALSE], [ok |-> TRUE, value |-> 198],
                            [ok |-> TRUE, value |-> 200], [ok |-> TRUE, value |-> 5000],
                            [ok |-> TRUE, value |-> 100000]},
              fail_legs |-> {"none", "NO"}, close_ok |-> {TRUE},
              tick_asks |-> {<<PriceText(40)>>}]
    /\ SniperIdle

NextSize ==
    \/ \E m \in Markets : NewMarketEvent(m)
    \/ \E m \in Markets : \E r \in FetchResults(m), ch \in Choices :
          ImmediateFetchReturn(m, r, ch)
    \/ \E a \in AssetIds, asks \in env.tick_asks : WsDeliver(a, asks)
    \/ \E ch \in Choices : HandleTick(ch)

SpecSize == InitSize /\ [][NextSize]_vars

(***************************************************************************)
(* Closing positions: positions registered under their market ids in the   *)
(* risk manager and in the PnL tracker, closed by Executor::close_position *)
(* directly and by Sniper::manage_positions, with closing orders that fail *)
(***************************************************************************)
\* the number of close_position and manage_positions calls
MaxCalls == 2

\* the market lists given to manage_positions: one market, at the take-profit price,
\* below the stop-loss price, or at the entry price
CloseMarkets ==
    {ApiMarket(m, q, 2000, FALSE) : m \in Markets, q \in {<<99, 99>>, <<40, 40>>, <<50, 50>>}}

\* PnLTracker::add_position, by the owner of the tracker
PnlAddPosition(market_id) ==
    /\ market_id \in env.markets
    /\ pnl_positions' = pnl_add_position(pnl_positions,
                            [id |-> <<"t1">>, market_id |-> market_id, side |-> "BOTH",
                             size |-> 10000, entry_price |-> 50, current_price |-> 50])
    /\ UNCHANGED <<ws, config, queue, price_book, now, env, positions, rm_ret, rm_open>>
    /\ UNCHANGED <<seen_markets, pending_retries, fetch_tasks, retry_rx, ws_update_rx,
                   active_markets, asset_map, sub_requests, subscribe_rx, pc, hist>>

\* executor.close_position(market, side, &mut risk_manager)
ExecutorClosePosition(market, side, order_ok) ==
    /\ env.calls > 0
    /\ env' = [env EXCEPT !.calls = @ - 1]
    /\ positions' = close_position(positions, market, side, order_ok).positions
    /\ rm_open' = rm_open \cap DOMAIN positions'
    /\ hist' = [hist EXCEPT !.call = [op |-> "close_position", left |-> env.calls,
                                      market_id |-> market.id, side |-> side,
                                      order_ok |-> order_ok,
                                      ret |-> close_position(positions, market, side,
                                                             order_ok).ok]]
    /\ UNCHANGED <<ws, config, queue, price_book, now, rm_ret>>
    /\ UNCHANGED <<seen_markets, pending_retries, fetch_tasks, retry_rx, ws_update_rx,
                   active_markets, asset_map, sub_requests, subscribe_rx, pnl_positions, pc>>

\* self.manage_positions(&current_markets)
ManagePositions(current_markets, ch) ==
    /\ env.calls > 0
    /\ env' = [env EXCEPT !.calls = @ - 1]
    /\ Commit(manage_positions(
           [SniperState EXCEPT !.hist.call = [op |-> "manage_positions", left |-> env.calls,
                                              close_ok |-> ch.close_ok]],
           current_markets, ch))
    /\ rm_open' = rm_open \cap DOMAIN positions'
    /\ UNCHANGED <<ws, config, queue, price_book, now, rm_ret>>
    /\ UNCHANGED <<seen_markets, pending_retries, fetch_tasks, retry_rx, ws_update_rx, pc>>

InitClose ==
    /\ config \in {c \in RiskConfigs : c.min_hold_time_secs = 0 /\ ~c.use_dynamic_sl
                                        /\ c.scan_existing_on_startup}
    /\ now = 0
    /\ positions = EmptyMap
    /\ rm_ret = NoCall
    /\ queue = NoQueue
    /\ price_book = EmptyBook
    /\ rm_open = {}
    /\ env = [markets |-> Markets, calls |-> MaxCalls,
              add_args |-> [trade_id : {<<"t1">>}, side : Sides, size_usd : {10000},
                            entry_price : {50}],
              balances |-> {[ok |-> TRUE, value |-> 100000]},
              fail_legs |-> {"none"}, close_ok |-> BOOLEAN]
    /\ SniperIdle

NextClose ==
    \/ \E m \in Markets, a \in env.add_args :
          RMAddPosition(m, a.trade_id, a.side, a.size_usd, a.entry_price)
    \/ \E m \in Markets : PnlAddPosition(m)
    \/ \E market \in CloseMarkets, side \in Sides, order_ok \in BOOLEAN :
          ExecutorClosePosition(market, side, order_ok)
    \/ \E market \in CloseMarkets, ch \in Choices : ManagePositions(<<market>>, ch)

SpecClose == InitClose /\ [][NextClose]_vars

(***************************************************************************)
(* A burst of announcements of one market whose metadata is not served     *)
(* yet: every failed immediate fetch queues one retry, so the queue grows  *)
(* beyond one batch before the retry timer ticks; the immediate fetches    *)
(* fail, the retry fetches find the metadata                               *)
(***************************************************************************)
\* the number of announcements in the burst
MaxQueued == 21

InitBatch ==
    /\ config \in {c \in RiskConfigs : c.min_hold_time_secs = 2 /\ ~c.use_dynamic_sl
                                        /\ c.scan_existing_on_startup}
    /\ now = 0
    /\ positions = EmptyMap
    /\ rm_ret = NoCall
    /\ queue = NoQueue
    /\ price_book = EmptyBook
    /\ rm_open = {}
    /\ env = [markets |-> {<<"m1">>},
              inputs |-> 2 * MaxQueued, events |-> MaxQueued, fails |-> MaxQueued,
              ticks |-> 0, polls |-> 0,
              quotes |-> {<<0, 0>>}, volumes |-> {2000}, yes_first |-> {FALSE},
              balances |-> {[ok |-> TRUE, value |-> 100000]},
              fail_legs |-> {"none"}, close_ok |-> {TRUE},
              tick_asks |-> {}]
    /\ SniperIdle

NextBatch ==
    \/ \E m \in Markets : NewMarketEvent(m)
    \/ \E m \in Markets : \E ch \in Choices : ImmediateFetchReturn(m, FetchErr, ch)
    \/ RetryFlush
    \/ \E t \in BagToSet(fetch_tasks) : \E a \in ApiMarkets(t[1]) :
          FetchTaskComplete(t, FetchOk(a))
    \/ \E ch \in Choices : RetryResult(ch)

SpecBatch == InitBatch /\ [][NextBatch]_vars

(***************************************************************************)
(* Properties of the RiskManager                                           *)
(***************************************************************************)
PositionsOf(tbl, market_id) == {k \in DOMAIN tbl : tbl[k].market_id = market_id}

\* C2: for the RiskManager alone, after add_position with market id M every
\* validate_entry(M, size, confidence) returns false until remove_position(M),
\* and the table holds at most one position per market id.
C2_HeldMarketRejected ==
    /\ \A m \in rm_open : \A s \in RMSizes, c \in RMConfidences :
          ~validate_entry(positions, m, s, c)
    /\ \A m \in Markets : Cardinality(PositionsOf(positions, m)) <= 1
    /\ rm_ret.op = "validate_entry" /\ rm_ret.market_id \in rm_open => ~rm_ret.result

\* a held market was refused an entry that a free market would have got
C2_Witness ==
    /\ rm_ret.op = "validate_entry"
    /\ rm_ret.market_id \in rm_open
    /\ ~rm_ret.result
    /\ \E m \in Markets \ rm_open :
          validate_entry(positions, m, rm_ret.size_usd, rm_ret.confidence)

C5_NoStopLossBeforeMinHold ==
    (/\ rm_ret.op = "check_stop_loss"
     /\ rm_ret.at - rm_ret.position.timestamp < config.min_hold_time_secs)
        => ~rm_ret.result

\* a check inside the hold time at price 0, which the price alone would trigger
C5_Witness ==
    /\ rm_ret.op = "check_stop_loss"
    /\ rm_ret.at - rm_ret.position.timestamp < config.min_hold_time_secs
    /\ rm_ret.current_price = 0
    /\ rm_ret.position.entry_price = 90
    /\ config.use_dynamic_sl
    /\ ~rm_ret.result

OpenedFor(tbl, market_id) == {k \in DOMAIN tbl : <<k, market_id>> \in hist.opened}

\* C1: the risk manager never holds two open positions for the same market: once an
\* arbitrage entry on market M has been executed and registered, every later
\* validate_entry for M returns false until M's position is removed.
C1_OnePositionPerMarket ==
    \A m \in Markets :
        /\ Cardinality(OpenedFor(positions, m)) <= 1
        /\ OpenedFor(positions, m) # {}
              => \A s \in RMSizes : ~validate_entry(positions, m, s, 100)

\* C3: in every reachable state of the pipeline the sum of size_usd over the open
\* positions of the risk manager is at most max_portfolio_exposure_pct x 1000.
C3_ExposureWithinCap ==
    current_exposure(positions) * 10000 <= 100000 * config.max_portfolio_exposure_pct

\* the table is filled to the cap by two entries and a further entry was refused
C3_Witness ==
    /\ hist.last = "risk_rejected"
    /\ Cardinality(DOMAIN positions) > 2
    /\ current_exposure(positions) = max_exposure

\* C7: if, after the minimum hold time, a poll returns the market of an open position
\* with a price that satisfies the stop-loss condition or is at or above the auto-sell
\* threshold, the closing order is issued in that poll cycle and, when the order
\* succeeds, the position is removed from the risk manager.
C7_DuePositionClosedByPoll ==
    hist.poll.done =>
        \A k \in DOMAIN hist.poll.before : \A j \in 1..Len(hist.poll.markets) :
            LET p == hist.poll.before[k]
                market == hist.poll.markets[j]
                price == IF p.side = "YES" THEN market.yes_price ELSE market.no_price
                threshold == IF config.use_dynamic_sl
                             THEN get_dynamic_threshold(p.entry_price)
                             ELSE config.stop_loss_pct
            IN  (/\ <<k, market.id>> \in hist.opened
                 /\ hist.poll.at - p.timestamp >= config.min_hold_time_secs
                 /\ \/ pnl_below(price, p.entry_price, threshold)
                    \/ price >= config.auto_sell_threshold)
                    => /\ k \in hist.poll.ordered
                       /\ hist.poll.close_ok => k \notin hist.poll.after

\* C8: under every interleaving of new-market events, retry results and polls each
\* market id is put through first-time processing at most once.
C8_FirstTimeAtMostOnce == \A m \in Markets : hist.first_time[m] <= 1

\* two retry chains were running, both markets were processed once, and a later
\* fetched copy of a market was dropped as seen
C8_Witness ==
    /\ \A m \in Markets : hist.first_time[m] = 1
    /\ hist.dispatched >= 2
    /\ hist.skipped > 0

\* C9: attempt counts in the pending-retry queue are always in 1..60; a failed result
\* with attempts < 60 re-enqueues exactly one entry with attempts + 1, a failed result
\* with attempts = 60 and a successful result re-enqueue nothing; at most 60 retry
\* fetches are dispatched per chain and every chain has at most one entry in flight.
C9_RetryChainTerminates ==
    /\ [](/\ \A j \in 1..Len(pending_retries) : pending_retries[j][2] \in 1..60
          /\ \A t \in BagToSet(fetch_tasks) : t[2] \in 1..60
          /\ \A j \in 1..Len(retry_rx) : retry_rx[j].attempts \in 1..60
          /\ hist.dispatched <= 60 * hist.chains
          /\ Len(pending_retries) + BagCardinality(fetch_tasks) + Len(retry_rx)
                <= hist.chains)
    /\ [][(retry_rx # <<>> /\ retry_rx' = Tail(retry_rx)) =>
             LET msg == Head(retry_rx)
             IN  pending_retries' =
                     IF ~msg.result.ok /\ msg.attempts < 60
                     THEN Append(pending_retries, <<msg.cid, msg.attempts + 1>>)
                     ELSE pending_retries]_vars

\* a chain that was abandoned after its 60th retry fetch failed
C9_Witness ==
    /\ hist.chains = 1
    /\ hist.dispatched = 60
    /\ pending_retries = <<>> /\ fetch_tasks = EmptyBag /\ retry_rx = <<>>
    /\ seen_markets = {}
    /\ env.fails = 0

\* C10: while a metadata fetch (the immediate fetch of a new-market event or a retry
\* fetch) is outstanding, a tick waiting on the update channel can still be handled:
\* the loop is at its select! point.
C10_FetchDoesNotBlockTicks ==
    (/\ ws_update_rx # <<>>
     /\ pc.at = "await_fetch" \/ fetch_tasks # EmptyBag)
        => AtSelect

(***************************************************************************)
(* Properties of the stream client                                         *)
(***************************************************************************)
\* C11: after the stream client has reconnected, every asset id registered in the
\* orchestrator's asset map is sent again in a subscription message on the new
\* connection (here: every registered id that an earlier connection had been sent,
\* once the new connection has had a flush tick and nothing is waiting to be sent).
C11_ResubscribedAfterReconnect ==
    (/\ ws.phase = "live" /\ ws.conns > 1 /\ ws.flushed
     /\ subscribe_rx = <<>> /\ ws.pending_subs = <<>>)
        => (DOMAIN asset_map \cap ws.written) \subseteq ws.wire

\* the asset ids of the requests still in the subscribe channel
QueuedIds == UNION {SeqToSet(subscribe_rx[i]) : i \in DOMAIN subscribe_rx}

\* C12: no accepted subscription request is lost: every asset id passed to subscribe()
\* is still waiting for a flush of a live connection (in the channel or in the
\* connection's buffer) or has been written to the venue.
C12_NoSubscriptionLost ==
    sub_requests \subseteq (QueuedIds \cup SeqToSet(ws.pending_subs) \cup ws.written)

\* C13: a read error, a close frame or a failed connection attempt puts the client
\* into the back-off sleep of 5 s, from which it always goes on to a new connection
\* attempt and only after the full sleep; with the endpoint reachable the client is
\* connected again and again, it never stays disconnected.
C13_ReconnectsAfterBackoff ==
    /\ [][/\ (ws.phase = "live" /\ ws'.phase # "live")
              => (ws'.phase = "backoff" /\ ws'.sleep = backoff_secs)
          /\ (ws.phase = "connecting" /\ ws'.phase # "connecting")
              => (ws'.phase = "live" \/ (ws'.phase = "backoff" /\ ws'.sleep = backoff_secs))
          /\ (ws.phase = "backoff" /\ ws' # ws)
              => (/\ ws'.sleep = ws.sleep - 1
                  /\ ws'.phase = IF ws'.sleep = 0 THEN "connecting" ELSE "backoff")]_vars
    /\ (ws.phase = "backoff") ~> (ws.phase = "connecting")
    /\ []<>(ws.phase = "live")

\* a second connection is live after the first one was torn down
C13_Witness == ws.phase = "live" /\ ws.conns = 2 /\ env.drops < MaxDrops

\* the ids of a sequence of messages, one after the other
RECURSIVE Concat(_)
Concat(msgs) == IF msgs = <<>> THEN <<>> ELSE Head(msgs) \o Concat(Tail(msgs))

\* C14: subscription messages are written only in flush steps, never in the step that
\* receives a subscribe request; a flush of a non-empty buffer writes the buffer's ids
\* in ascending order without repeats, in messages of 1..50 ids, and empties the
\* buffer; a flush of an empty buffer writes nothing.
C14_FlushBatches ==
    [][LET flush == env'.flushes < env.flushes
           msgs == ws'.last.msgs
           ids == Concat(msgs)
       IN /\ ~flush => (ws'.written = ws.written /\ ws'.wire \subseteq ws.wire)
          /\ (subscribe_rx' # subscribe_rx \/ Len(ws'.pending_subs) > Len(ws.pending_subs))
                => ~flush
          /\ flush =>
                /\ ws'.last.pending = ws.pending_subs
                /\ ws'.pending_subs = <<>>
                /\ SeqToSet(ids) = SeqToSet(ws.pending_subs)
                /\ \A i \in 1..(Len(ids) - 1) : AssetRank(ids[i]) < AssetRank(ids[i + 1])
                /\ \A j \in DOMAIN msgs : Len(msgs[j]) \in 1..chunk_size
                /\ ws'.wire \ ws.wire \subseteq SeqToSet(ids)
                /\ (ws.pending_subs = <<>>) => (msgs = <<>> /\ ws'.wire = ws.wire)]_vars

\* a flush has sent a buffer of more than 50 entries, one of them a repeat, as a full
\* message and a rest
C14_Witness ==
    /\ ws.last.done
    /\ Len(ws.last.pending) > chunk_size
    /\ Len(ws.last.msgs) = 2
    /\ Len(ws.last.msgs[1]) = chunk_size
    /\ Len(Concat(ws.last.msgs)) < Len(ws.last.pending)
    /\ ws.pending_subs = <<>>

\* C15: once the fetched metadata of a market has failed a filter minimum, the market
\* is not given to the detector again and no position is entered for it, on later
\* ticks included.
C15_FilteredMarketNotEvaluated ==
    [][\A m \in hist.below :
          /\ hist'.evaluated[m] = hist.evaluated[m]
          /\ hist'.entries[m] = hist.entries[m]]_vars

\* C16: after a successful metadata fetch for a market has been handled (by the
\* immediate fetch or by a retry result), the active-market entry of the market is the
\* fully described market: no synthetic placeholder remains.
C16_PlaceholderReplaced ==
    \A m \in DOMAIN active_markets :
        (pc = [at |-> "select"] /\ hist.first_time[m] > 0)
            => active_markets[m] # synthetic_market(m)
                 /\ active_markets[m].question # "Loading Metadata"

\* what the new-market branch registers for condition id m before its fetch: the
\* placeholder, the two token ids mapped to their sides, and the awaited fetch
Registered(m) ==
    /\ m \in DOMAIN active_markets' /\ active_markets'[m].question = "Loading Metadata"
    /\ active_markets'[m].id = m
    /\ <<m[1], "tokY">> \in DOMAIN asset_map' /\ asset_map'[<<m[1], "tokY">>] = <<m, "YES">>
    /\ <<m[1], "tokN">> \in DOMAIN asset_map' /\ asset_map'[<<m[1], "tokN">>] = <<m, "NO">>
    /\ pc' = [at |-> "await_fetch", cid |-> m]
    /\ UNCHANGED <<seen_markets, pending_retries, fetch_tasks, positions>>

\* a subscription for the two token ids of m is requested in this step
SubscriptionRequested(m) ==
    /\ subscribe_rx' # subscribe_rx
    /\ SeqToSet(subscribe_rx'[Len(subscribe_rx')]) = {<<m[1], "tokY">>, <<m[1], "tokN">>}
    /\ SubSeq(subscribe_rx', 1, Len(subscribe_rx)) = subscribe_rx
    /\ Len(subscribe_rx') = Len(subscribe_rx) + 1

\* the awaited fetch of the new-market branch returns: a failure queues (id, 1) and
\* leaves the registration alone; no other fetch is started
FetchReturned ==
    (pc.at = "await_fetch" /\ pc' # pc) =>
        /\ pc' = [at |-> "select"]
        /\ fetch_tasks' = fetch_tasks
        /\ \/ /\ hist'.chains = hist.chains + 1
              /\ pending_retries' = Append(pending_retries, <<pc.cid, 1>>)
              /\ UNCHANGED <<seen_markets, active_markets, asset_map, subscribe_rx>>
           \/ /\ hist'.chains = hist.chains
              /\ pending_retries' = pending_retries

\* an event for a seen id changes nothing
SeenEventIgnored ==
    UNCHANGED <<seen_markets, active_markets, asset_map, sub_requests, subscribe_rx,
                pending_retries, fetch_tasks, positions, pc>>

\* C17 as stated: a new-market event for an unseen id registers the placeholder and
\* the asset mapping, requests the subscription for both ids and awaits exactly one
\* fetch, whose failure queues a retry with attempt count 1; an event for a seen id
\* changes nothing.
C17_EventRegistersAndSubscribes ==
    [][/\ (env'.events < env.events) =>
             \E m \in env.markets :
                IF m \in seen_markets THEN SeenEventIgnored
                ELSE Registered(m) /\ SubscriptionRequested(m)
       /\ FetchReturned]_vars

\* C17 amended: the same, with the subscription requested when a stream client exists
\* and nothing sent to any stream otherwise.
C17_EventRegisters ==
    [][/\ (env'.events < env.events) =>
             \E m \in env.markets :
                IF m \in seen_markets THEN SeenEventIgnored
                ELSE /\ Registered(m)
                     /\ IF config.ws_enabled THEN SubscriptionRequested(m)
                        ELSE subscribe_rx' = subscribe_rx
       /\ FetchReturned]_vars

\* an event for an unseen id was registered and its fetch failed and queued (id, 1)
\* with the placeholder in place, after at least three events and with a market seen
C17_Witness ==
    /\ hist.chains > 0
    /\ \E m \in DOMAIN active_markets : active_markets[m].question = "Loading Metadata"
    /\ \E i \in DOMAIN pending_retries : pending_retries[i][2] = 1
    /\ seen_markets # {}
    /\ env.events < MaxInputs + 1

\* C18: in every answered poll after the first answered one, each listed market that
\* is not in the seen set is added to it and processed exactly once, and no market
\* already seen is processed; whatever scan_existing_on_startup is.
C18_LaterPollProcessesUnseen ==
    [][(env'.polls < env.polls /\ hist.poll.done /\ hist'.poll.done)
          => \A m \in Markets :
                IF m \in MarketIds(hist'.poll.markets) /\ m \notin seen_markets
                THEN m \in seen_markets' /\ hist'.first_time[m] = hist.first_time[m] + 1
                ELSE hist'.first_time[m] = hist.first_time[m]]_vars

\* the entries of a sequence of updates that are for one asset id
PerAsset(updates, asset_id) == SelectSeq(updates, LAMBDA u : u.asset_id = asset_id)

\* C19: for every asset id, the ticks the tick branch has taken, followed by those
\* waiting in the update channel, are the ticks the stream client read from the
\* socket for that asset, in the order it read them.
C19_TicksInArrivalOrder ==
    \A a \in AssetIds :
        PerAsset(hist.applied, a) \o PerAsset(ws_update_rx, a) = PerAsset(hist.received, a)

\* the tick branch has taken two different ticks of one asset and a tick of the other
C19_Witness ==
    \E a, b \in AssetIds :
        /\ a # b
        /\ Len(PerAsset(hist.applied, a)) >= 2
        /\ PerAsset(hist.applied, a)[1] # PerAsset(hist.applied, a)[2]
        /\ Len(PerAsset(hist.applied, b)) >= 1

MarketsOpenedBy(k) == {m \in Markets : <<k, m>> \in hist.opened}

\* C21: at a redemption check the resolution oracle is asked about the condition id
\* of the market of every open position, and a position is removed from the risk
\* manager exactly if its market was reported resolved and its redemption succeeded.
C21_RedemptionPerPosition ==
    hist.redeem.done =>
        \A k \in DOMAIN hist.redeem.before :
            /\ MarketsOpenedBy(k) \subseteq hist.redeem.asked
            /\ (k \notin hist.redeem.after) <=> (hist.redeem.res[hist.redeem.before[k]] = "redeemed")

\* C22: on a snapshot with two positive prices check_opportunity returns BuyBoth
\* exactly if yes + no < 1 - 80/10000 - min_edge_bps/10000, and then with
\* edge (1 - (yes + no)) * 10000 - 80; yes = no = 0.40 gives 1920.
C22_SignalIffNetEdge ==
    (hist.call.op = "check_opportunity"
        /\ hist.call.market.yes_price > 0 /\ hist.call.market.no_price > 0) =>
        LET net == (100 - (hist.call.market.yes_price + hist.call.market.no_price)) * 100 - 80
        IN /\ (hist.call.ret.kind = "BuyBoth") <=> (net > config.min_edge_bps)
           /\ (hist.call.ret.kind = "BuyBoth") => (hist.call.ret.expected_profit_bps = net)

\* C23: a step of the loop that attempts an entry (places the orders of a BuyBoth
\* signal) does so only for a market whose stored YES and NO prices are both above
\* zero, so a placeholder market is not traded before ticks have set both prices.
C23_NoEntryWithoutBothPrices ==
    [][(hist'.millis # hist.millis)
          => \A m \in Markets :
                (hist'.evaluated[m] # hist.evaluated[m])
                    => /\ m \in DOMAIN active_markets'
                       /\ active_markets'[m].yes_price > 0
                       /\ active_markets'[m].no_price > 0]_vars

\* the tick branch has evaluated a market whose YES price a tick has set while its NO
\* price is still zero, and nothing was ordered
C23_Witness ==
    /\ hist.applied # <<>>
    /\ \E m \in DOMAIN active_markets :
          /\ active_markets[m].yes_price > 0
          /\ active_markets[m].no_price = 0
          /\ hist.evaluated[m] >= 2
          /\ hist.entries[m] = 0
    /\ hist.millis = 0
    /\ positions = EmptyMap

\* the floor and the ceiling of apply_risk_limits for a capital
MinSize(capital) == (capital * 100) \div 10000
MaxSize(capital) == (capital * 1000) \div 10000

\* C24 as stated: for every input, calculate_optimal_size returns a value within
\* [capital * min_pct, capital * max_pct].
C24_SizeAlwaysWithinLimits ==
    (hist.call.op = "calculate_optimal_size") =>
        /\ hist.call.ret >= MinSize(hist.call.capital)
        /\ hist.call.ret <= MaxSize(hist.call.capital)

\* C24 amended: calculate_optimal_size returns 0 when edge <= 0, win probability <= 0
\* or capital <= 0, and for every other input a value within
\* [capital * min_pct, capital * max_pct]; edge 200 bps, win probability 0.95, capital
\* 1000, volatility 0.10 with min 1% and max 10% gives a positive size in [10, 100].
C24_SizeWithinLimitsUnlessDegenerate ==
    (hist.call.op = "calculate_optimal_size") =>
        /\ IF hist.call.edge_bps <= 0 \/ hist.call.win_probability <= 0 \/ hist.call.capital <= 0
           THEN hist.call.ret = 0
           ELSE /\ hist.call.ret >= MinSize(hist.call.capital)
                /\ hist.call.ret <= MaxSize(hist.call.capital)
        /\ (hist.call.edge_bps = 200 /\ hist.call.win_probability = 95
               /\ hist.call.capital = 100000 /\ hist.call.volatility = 10)
              => (hist.call.ret > 0 /\ hist.call.ret >= 1000 /\ hist.call.ret <= 10000)

\* a call whose Kelly size is negative, so that the floor is what it returns
C24_Witness ==
    /\ hist.call.op = "calculate_optimal_size"
    /\ hist.call.edge_bps = 200 /\ hist.call.win_probability = 95
    /\ hist.call.capital = 100000 /\ hist.call.volatility = 10
    /\ hist.call.ret = MinSize(100000)

\* C25: with one producer pushing and one consumer popping in any order, push returns
\* true iff fewer than capacity items are queued, and a push on a full queue returns
\* false and leaves the queue as it was; pop returns None iff the queue is empty and
\* otherwise the oldest item; len() is within 0..capacity; a push or a pop can be
\* made in every state.
C25_BoundedFifo ==
    /\ Len(queue.items) <= queue.capacity
    /\ (hist.call.op = "push") =>
          /\ hist.call.ret <=> (Len(hist.call.before.items) < queue.capacity)
          /\ queue.items = IF hist.call.ret
                           THEN Append(hist.call.before.items, hist.call.orderbook)
                           ELSE hist.call.before.items
    /\ (hist.call.op = "pop") =>
          /\ (hist.call.ret = None) <=> (hist.call.before.items = <<>>)
          /\ (hist.call.before.items # <<>>) =>
                /\ hist.call.ret = Some(Head(hist.call.before.items))
                /\ queue.items = Tail(hist.call.before.items)
          /\ (hist.call.before.items = <<>>) => (queue.items = <<>>)
    /\ (hist.call.op = "len") => (hist.call.ret \in 0..queue.capacity)
    /\ (env.pushes > 0) => ENABLED (\E t \in 1..2 : QueuePush(OrderBookNew(t)))
    /\ ENABLED QueuePop

\* a push has just been refused on a full queue of two different order books
C25_Witness ==
    /\ hist.call.op = "push"
    /\ ~hist.call.ret
    /\ Len(queue.items) = queue.capacity
    /\ queue.capacity >= 2
    /\ queue.items[1] # queue.items[2]

\* C26: with max_position_size_pct = 10.0, max_portfolio_exposure_pct = 50.0 and no
\* open position, validate_entry with confidence 0.8 accepts size 5.0 and rejects size
\* 15.0.
C26_TestSizeLimit ==
    (/\ rm_ret.op = "validate_entry"
     /\ rm_ret.before = EmptyMap
     /\ rm_ret.confidence = 80
     /\ config.max_position_size_pct = 100000
     /\ config.max_portfolio_exposure_pct = 500000)
        => /\ (rm_ret.size_usd = 500) => rm_ret.result
           /\ (rm_ret.size_usd = 1500) => ~rm_ret.result

\* C27: with stop_loss_pct = 5.0 and the minimum hold time elapsed, check_stop_loss on
\* a position entered at 0.50 returns true at price 0.47 and false at price 0.49.
C27_TestStopLoss ==
    (/\ rm_ret.op = "check_stop_loss"
     /\ config.stop_loss_pct = 50000
     /\ rm_ret.position.entry_price = 50
     /\ rm_ret.at - rm_ret.position.timestamp >= config.min_hold_time_secs)
        => /\ (rm_ret.current_price = 47) => rm_ret.result
           /\ (rm_ret.current_price = 49) => ~rm_ret.result

\* the tier table of the dynamic stop-loss, thresholds in basis points
TierThreshold(entry_price) ==
    IF entry_price >= 90 THEN 300
    ELSE IF entry_price >= 80 THEN 500
    ELSE IF entry_price >= 70 THEN 800
    ELSE IF entry_price >= 60 THEN 1200
    ELSE config.stop_loss_pct

\* no entry price above the one just asked about gets a larger threshold
NoHigherEntryLooser ==
    \A e \in ThresholdEntries :
        (e >= hist.call.entry_price) => (get_dynamic_threshold(e) <= hist.call.ret)

\* C28 as stated: the dynamic threshold is 3% from 0.90, 5% in [0.80, 0.90), 8% in
\* [0.70, 0.80), 12% in [0.60, 0.70) and the configured value below 0.60, and for
\* every configured stop_loss_pct it is non-increasing in the entry price.
C28_TiersNonIncreasing ==
    (hist.call.op = "get_dynamic_threshold") =>
        /\ hist.call.ret = TierThreshold(hist.call.entry_price)
        /\ NoHigherEntryLooser

\* C28 amended: the dynamic threshold is 3% from 0.90, 5% in [0.80, 0.90), 8% in
\* [0.70, 0.80), 12% in [0.60, 0.70) and the configured value below 0.60; it is
\* non-increasing in the entry price when the configured stop_loss_pct is at least
\* 12%.
C28_TiersNonIncreasingFromTwelve ==
    (hist.call.op = "get_dynamic_threshold") =>
        /\ hist.call.ret = TierThreshold(hist.call.entry_price)
        /\ (config.stop_loss_pct >= 1200) => NoHigherEntryLooser

\* the threshold of an entry below 0.60 was asked for with 15% configured
C28_Witness ==
    /\ hist.call.op = "get_dynamic_threshold"
    /\ hist.call.entry_price < 60
    /\ config.stop_loss_pct = 1500
    /\ hist.call.ret = 1500

\* the indices of the active ask levels of a book
ActiveAsks(book) == 1..book.ask_count

\* the sum of the sizes of the levels at the indices S
RECURSIVE SizesAt(_, _)
SizesAt(book, S) ==
    IF S = {} THEN 0
    ELSE LET i == CHOOSE x \in S : TRUE IN book.asks[i].size + SizesAt(book, S \ {i})

BestAskIsLowest ==
    (hist.call.op = "best_ask" /\ hist.call.ret.some) =>
        \A i \in ActiveAsks(hist.call.book) : hist.call.ret.value <= hist.call.book.asks[i].price

LiquidityIsSumOfActive ==
    (hist.call.op = "total_ask_liquidity") =>
        hist.call.ret = SizesAt(hist.call.book, ActiveAsks(hist.call.book))

AsksAscending(book) ==
    \A i, j \in ActiveAsks(book) : (i <= j) => (book.asks[i].price <= book.asks[j].price)

\* C29 as stated: for any OrderBook, best_ask() is at most the price of every active
\* ask level, and total_ask_liquidity() is the sum of the sizes of the active ask
\* levels.
C29_BestAskAndLiquidity ==
    /\ BestAskIsLowest
    /\ LiquidityIsSumOfActive

\* C29 amended: for any OrderBook whose active ask levels are stored in ascending
\* order of price, best_ask() is at most the price of every active ask level; for any
\* OrderBook, total_ask_liquidity() is the sum of the sizes of the active ask levels.
C29_BestAskOfAscendingAsks ==
    /\ (hist.call.op = "best_ask" /\ AsksAscending(hist.call.book)) => BestAskIsLowest
    /\ LiquidityIsSumOfActive

\* best_ask() was called on a book with two active levels of rising price
C29_Witness ==
    /\ hist.call.op = "best_ask"
    /\ hist.call.book.ask_count >= 2
    /\ hist.call.book.asks[1].price > 0
    /\ hist.call.book.asks[1].price < hist.call.book.asks[2].price
    /\ AsksAscending(hist.call.book)
    /\ hist.call.ret = Some(hist.call.book.asks[1].price)

\* the market record with the price of one side replaced
WithSidePrice(market, side, price) ==
    IF side = "YES" THEN [market EXCEPT !.yes_price = price]
    ELSE [market EXCEPT !.no_price = price]

\* C30: the tick branch, taking a tick for an asset mapped to (M, side) that has an
\* ask level, sets that side's stored price of M to the price of the first ask level
\* and changes nothing else of M, of any other market or of the asset mapping, and
\* evaluates no market but M; a tick for an unmapped asset or without ask level
\* changes no state of the orchestrator.
C30_TickChangesOneSide ==
    [][(Len(hist'.applied) > Len(hist.applied)) =>
          LET update == Head(ws_update_rx)
          IN /\ asset_map' = asset_map
             /\ seen_markets' = seen_markets /\ pending_retries' = pending_retries
             /\ IF update.asset_id \in DOMAIN asset_map /\ update.asks # <<>>
                THEN LET market_id == asset_map[update.asset_id][1]
                         side == asset_map[update.asset_id][2]
                     IN /\ DOMAIN active_markets' = DOMAIN active_markets
                        /\ \E price \in 0..100 :
                              /\ active_markets'[market_id] =
                                     WithSidePrice(active_markets[market_id], side, price)
                              /\ update.asks[1].num => (price = update.asks[1].cents)
                        /\ \A m \in DOMAIN active_markets \ {market_id} :
                              active_markets'[m] = active_markets[m]
                        /\ \A m \in Markets \ {market_id} :
                              /\ hist'.evaluated[m] = hist.evaluated[m]
                              /\ hist'.entries[m] = hist.entries[m]
                ELSE UNCHANGED <<active_markets, positions, pnl_positions, sub_requests,
                                 subscribe_rx, fetch_tasks, retry_rx, pc>>]_vars

\* with both markets registered, two ticks have set both prices of the first and led
\* to an entry, and the second market still has the prices it had
C30_Witness ==
    /\ Len(hist.applied) >= 2
    /\ DOMAIN active_markets = Markets
    /\ active_markets[<<"m1">>].yes_price = 40
    /\ active_markets[<<"m1">>].no_price = 40
    /\ active_markets[<<"m2">>].yes_price = 0
    /\ active_markets[<<"m2">>].no_price = 0
    /\ hist.entries[<<"m1">>] = 1

C32_StartupMarketsNeverAnalysed ==
    [][(/\ env'.polls < env.polls
        /\ ~config.scan_existing_on_startup
        /\ ~hist.poll.done /\ hist'.poll.done)
          => \A m \in MarketIds(hist'.poll.markets) :
                hist'.first_time[m] = hist.first_time[m]]_vars

\* the prices of a side that have a level: the latest update for them gave a size
\* other than zero
LevelPrices(side) ==
    {p \in BookPrices : <<side, p>> \in DOMAIN hist.levels /\ hist.levels[<<side, p>>] # 0}

RECURSIVE SumOfLevels(_, _)
SumOfLevels(side, prices) ==
    IF prices = {} THEN 0
    ELSE LET p == CHOOSE x \in prices : TRUE
         IN hist.levels[<<side, p>>] + SumOfLevels(side, prices \ {p})

\* each level holds the size of the latest update for it, a zero size removes it
LevelsHoldLatest ==
    /\ Cardinality(DOMAIN price_book.bids) = Cardinality(LevelPrices("BUY"))
    /\ Cardinality(DOMAIN price_book.asks) = Cardinality(LevelPrices("SELL"))
    /\ SumOfValues(price_book.bids) = SumOfLevels("BUY", LevelPrices("BUY"))
    /\ SumOfValues(price_book.asks) = SumOfLevels("SELL", LevelPrices("SELL"))

\* calculate_imbalance is (bids - asks) / (bids + asks), 0 for an empty book, in [-1, 1]
ImbalanceNormalised ==
    hist.call.op = "calculate_imbalance" =>
        LET b == SumOfLevels("BUY", LevelPrices("BUY"))
            a == SumOfLevels("SELL", LevelPrices("SELL"))
            r == hist.call.ret
        IN /\ r.den > 0
           /\ r.num * (IF a + b = 0 THEN 1 ELSE a + b) = (b - a) * r.den
           /\ (a + b = 0) => r.num = 0
           /\ -r.den <= r.num /\ r.num <= r.den

\* best_quote is (highest bid price, lowest ask price), in ten-thousandths
BestQuoteIsBest ==
    hist.call.op = "best_quote" =>
        /\ hist.call.ret.bid =
              IF LevelPrices("BUY") = {} THEN None
              ELSE Some(100 * CHOOSE p \in LevelPrices("BUY") :
                                  \A q \in LevelPrices("BUY") : q <= p)
        /\ hist.call.ret.ask =
              IF LevelPrices("SELL") = {} THEN None
              ELSE Some(100 * CHOOSE p \in LevelPrices("SELL") :
                                  \A q \in LevelPrices("SELL") : p <= q)

\* C33: after any sequence of update(side, price, size) calls on the price-level
\* OrderBook, each (side, price) level holds the size of the latest update for it, a
\* zero-size update removes the level, best_quote returns (highest bid price, lowest ask
\* price), and calculate_imbalance is (bid sizes - ask sizes) / (bid sizes + ask sizes),
\* 0 for an empty book and within [-1, 1].
C33_PriceLevelBook ==
    /\ LevelsHoldLatest
    /\ ImbalanceNormalised
    /\ BestQuoteIsBest

\* C34: a tick whose best-ask price is not a parseable number is ignored: the stored
\* YES and NO prices of every market stay as they were and no market is evaluated.
C34_UnparsableTickIgnored ==
    [][(/\ Len(hist'.applied) > Len(hist.applied)
        /\ Head(ws_update_rx).asks # <<>>
        /\ ~Head(ws_update_rx).asks[1].num)
          => /\ \A m \in DOMAIN active_markets :
                   /\ active_markets'[m].yes_price = active_markets[m].yes_price
                   /\ active_markets'[m].no_price = active_markets[m].no_price
             /\ hist'.evaluated = hist.evaluated]_vars

\* the risk manager holds a position for the market: one whose market id is the
\* market's, or (the two ids being exchanged at registration) whose trade id is
HeldByRiskManager(market_id) ==
    \E k \in DOMAIN positions :
        positions[k].market_id = market_id \/ positions[k].trade_id = market_id

\* C35: between two iterations of the orchestrator loop the PnL tracker holds an open
\* position for a market only if the risk manager holds one for that market: none is
\* recorded for a failed execution, and it is closed when the risk manager's is.
C35_PnlOnlyWithRiskPosition ==
    AtSelect =>
        \A k \in DOMAIN pnl_positions : HeldByRiskManager(pnl_positions[k].market_id)

\* C36: whenever execute_arbitrage_bundle has placed at least one leg, the risk manager
\* holds, when the call is over, a position of that leg's side and size for the market,
\* even if the placement of the other leg failed.
C36_PlacedLegIsTracked ==
    [][\A order \in hist'.orders \ hist.orders :
          \E k \in DOMAIN positions' :
              /\ positions'[k].market_id = order[1] \/ positions'[k].trade_id = order[1]
              /\ positions'[k].side = order[2]
              /\ positions'[k].size_usd = order[3]]_vars

\* the side whose price an asset id carries: the token of the Yes outcome, whose
\* metadata price convert_gamma_market stores as yes_price, or that of the No outcome
OutcomeOf(asset_id) == IF asset_id[2] = "tokY" THEN "YES" ELSE "NO"

\* C37: every asset id registered for streaming, from locally derived ids or from
\* fetched metadata with its token ids in either order, is mapped to its own market
\* and to the side of its outcome, and the side of an asset id never changes (in
\* particular not when a placeholder is replaced by the fetched market).
C37_AssetSideMatchesOutcome ==
    /\ [](\A a \in DOMAIN asset_map :
             asset_map[a][1][1] = a[1] /\ asset_map[a][2] = OutcomeOf(a))
    /\ [][\A a \in DOMAIN asset_map :
             a \in DOMAIN asset_map' /\ asset_map'[a][2] = asset_map[a][2]]_vars

\* no step of the client takes a connection whose stream has ended out of its loop:
\* whatever the budgets of a run, the loop on a finished stream is never left
FinishedStreamNeverLeft ==
    [][(ws.phase = "live" /\ ws.ended) => (ws'.phase = "live" /\ ws'.ended)]_vars

\* C38: the stream client leaves a dead connection: once the inbound stream of a
\* connection has ended without a close frame or an error, the connection's loop is
\* left for the back-off sleep; the client does not loop on a finished stream for ever.
C38_LeavesFinishedStream ==
    (ws.phase = "live" /\ ws.ended) ~> (ws.phase = "backoff")

\* C39: every arbitrage the orchestrator executes has a total size of at least 2.0 USD
\* and at most the balance get_balance reported for it (a failed query counting as 0),
\* each leg being half of it; a signal whose size capped to the balance is below
\* 2.0 USD, or that validate_entry rejects, is not executed, and a signal that is not
\* executed places no order and changes neither the risk manager's positions nor the
\* PnL tracker's.
C39_ExecutedSizeWithinBalance ==
    [][(hist'.evaluated # hist.evaluated /\ hist'.signal.done) =>
          LET sg == hist'.signal
              reported == IF sg.answer.ok THEN sg.answer.value ELSE 0
              capped == IF reported < sg.size_usd THEN reported ELSE sg.size_usd
              executed == hist'.millis > hist.millis
          IN /\ executed =>
                  /\ 200 <= sg.final_size /\ sg.final_size <= reported
                  /\ \A order \in hist'.orders \ hist.orders :
                        order[1] = sg.market_id /\ order[3] * 2 = sg.final_size
             /\ (capped < 200 \/ ~validate_entry(positions, sg.market_id, capped, 100))
                  => ~executed
             /\ ~executed =>
                  /\ hist'.orders = hist.orders
                  /\ positions' = positions
                  /\ pnl_positions' = pnl_positions]_vars

\* an entry capped to a balance of 50 USD has been executed after a balance query had
\* failed, after a balance below 2 USD had been reported, and the risk gate has
\* rejected a signal since
C39_Witness ==
    /\ hist.signal.done
    /\ hist.last = "risk_rejected"
    /\ "get_balance" \in hist.failed
    /\ \E k \in DOMAIN pnl_positions : pnl_positions[k].size = 5000
    /\ hist.evaluated[<<"m1">>] = 4

\* C40: a close_position call whose closing order fails, or that finds no position of
\* the given market and side, returns an error and leaves the risk manager's positions
\* and the PnL tracker as they were; a manage_positions run all of whose closing orders
\* fail leaves both as they were, so the positions are there for the next poll.
C40_FailedCloseChangesNothing ==
    [][/\ (hist'.call # hist.call /\ hist'.call.op = "close_position") =>
            LET c == hist'.call
                found == {p \in get_positions(positions) :
                             p.market_id = c.market_id /\ p.side = c.side}
            IN (found = {} \/ ~c.order_ok)
                  => (~c.ret /\ positions' = positions /\ pnl_positions' = pnl_positions)
       /\ (hist'.call # hist.call /\ hist'.call.op = "manage_positions"
                /\ ~hist'.call.close_ok)
            => (positions' = positions /\ pnl_positions' = pnl_positions)]_vars

\* a manage_positions run has placed a closing order that failed, with the position
\* held by the risk manager and by the PnL tracker still there
C40_Witness ==
    /\ hist.call.op = "manage_positions" /\ ~hist.call.close_ok
    /\ hist.poll.ordered # {}
    /\ "order" \in hist.failed
    /\ \E m \in hist.poll.ordered : m \in DOMAIN positions
    /\ pnl_positions # EmptyMap

====
